---- MODULE Spec2Model ----
(***************************************************************************)
(* Slice value engine of tommy-assistant: the sequence formulas, the slice *)
(* update engine (steps / percentage / absolute), the scheduled-deadline   *)
(* and continuous-interval penalty evaluators, the composite slice service *)
(* with its decay scheduler and the daily reset, over a store of Slice,    *)
(* SliceUpdate, SliceComponent and SliceComponentUpdate rows.              *)
(*                                                                         *)
(* Time is counted in whole minutes since midnight of day 0.  Formula      *)
(* parameters are integers, so that floor(formula(n)) is computed exactly; *)
(* the fractional bases of the seed catalogue (1.15, 1.3, 1.4) are         *)
(* replaced by integer bases (2 is the engine's default base).             *)
(***************************************************************************)
EXTENDS Integers, Sequences, FiniteSets, TLC

(* ------------------------------ constants ------------------------------ *)

MAX_INDEX == 10000

\* Largest value of an INTEGER column of the store (Slice.currentValue,
\* SliceUpdate.valueAfter, ...).  A computed value that reaches it is
\* treated as not storable: the write is refused by the persistence layer.
INT4_MAX == 2147483647

MinutesPerDay == 24 * 60

(* ------------------------------- bounds -------------------------------- *)

\* Largest number of SliceUpdate rows the model lets the store hold.
MaxUpdates == 2

\* Number of cron periods the clock may run past the start of its
\* observation window.
MaxTicks == 1

\* Largest number of automatic rows the sweeps of the continuous evaluator
\* may leave in the store.
MaxPenalties == 2

\* Number of cron periods the clock of the continuous evaluator is followed
\* for, once the allowance of a continuous slice has run out.
MaxLate == 3

\* Number of days the clock of the day-to-day specifications may pass.
MaxDays == 1

\* Largest number of SliceComponentUpdate rows the model lets the store hold.
MaxComponentUpdates == 3

(* --------------------------- small arithmetic -------------------------- *)

Max(a, b) == IF a >= b THEN a ELSE b

Min(a, b) == IF a <= b THEN a ELSE b

Abs(a) == IF a < 0 THEN -a ELSE a

\* Math.floor(Math.sqrt(n)) for an integer n >= 0, by bisection: the root
\* lies in lo..hi, and hi is at most 46340, whose square fits 32 bits.
RECURSIVE IsqrtFrom(_, _, _)
IsqrtFrom(n, lo, hi) ==
    IF lo = hi THEN lo
    ELSE LET mid == (lo + hi + 1) \div 2
         IN  IF mid * mid > n THEN IsqrtFrom(n, lo, mid - 1)
             ELSE IsqrtFrom(n, mid, hi)

Isqrt(n) == IsqrtFrom(n, 0, Min(n, 46340))

\* Math.pow(base, n) for an integer base >= 1, saturating at INT4_MAX
\* (every value at or above INT4_MAX stands for "too large to store").
RECURSIVE PowFrom(_, _, _, _)
PowFrom(base, n, i, acc) ==
    IF i = n THEN acc
    ELSE IF acc > INT4_MAX \div base THEN INT4_MAX
    ELSE PowFrom(base, n, i + 1, acc * base)

Pow(base, n) == IF base = 1 THEN 1 ELSE PowFrom(base, n, 0, 1)

(* ------------------------- double arithmetic ---------------------------- *)
(* The composite value is computed with JavaScript numbers on fractions    *)
(* (weight / 100, periods of decay), so the rounding of IEEE-754 doubles   *)
(* decides the floor the code takes.  A non-negative double is kept as     *)
(* [m, e], standing for m * 2^e, with m a natural number of at most 53     *)
(* bits written in limbs of 15 bits, least significant first.  Every       *)
(* operation computes the exact result and rounds it to nearest, ties to   *)
(* even, as the hardware does.                                             *)
(***************************************************************************)

Limb == 32768

\* The powers of 2 up to 2^15.
Pow2 == << 1, 2, 4, 8, 16, 32, 64, 128, 256, 512, 1024, 2048, 4096, 8192,
           16384, 32768 >>

TwoTo(k) == Pow2[k + 1]

\* The i-th limb of a, 0 beyond its length.
At(a, i) == IF i >= 1 /\ i <= Len(a) THEN a[i] ELSE 0

\* The number without its leading zero limbs (limbs is a, laid out as a
\* tuple).
BigTrim(a) ==
    LET limbs == a \o << >>
    IN  SubSeq(limbs, 1,
               IF \A i \in 1..Len(limbs) : limbs[i] = 0 THEN 0
               ELSE CHOOSE i \in 1..Len(limbs) :
                        /\ limbs[i] # 0
                        /\ \A j \in (i + 1)..Len(limbs) : limbs[j] = 0)

\* A natural number below 2^31 as limbs.
BigOfNat(n) ==
    BigTrim(<< n % Limb, (n \div Limb) % Limb, n \div (Limb * Limb) >>)

\* The limbs of a number below 2^31 as a natural number.
BigToNat(a) == At(a, 1) + Limb * At(a, 2) + Limb * Limb * At(a, 3)

\* a + b: a carry enters limb i when a limb below produces one and every
\* limb between passes it on.
BigAdd(a, b) ==
    LET carry(i) ==
            IF \E j \in 1..(i - 1) :
                  /\ At(a, j) + At(b, j) >= Limb
                  /\ \A k \in (j + 1)..(i - 1) : At(a, k) + At(b, k) = Limb - 1
              THEN 1
            ELSE 0
    IN  BigTrim([i \in 1..(Max(Len(a), Len(b)) + 1) |->
                    (At(a, i) + At(b, i) + carry(i)) % Limb])

\* a - b for a >= b, with borrows in place of carries.
BigSub(a, b) ==
    LET borrow(i) ==
            IF \E j \in 1..(i - 1) :
                  /\ At(a, j) < At(b, j)
                  /\ \A k \in (j + 1)..(i - 1) : At(a, k) = At(b, k)
              THEN 1
            ELSE 0
    IN  BigTrim([i \in 1..Len(a) |->
                    (At(a, i) - At(b, i) - borrow(i) + Limb) % Limb])

\* a < b, for numbers without leading zero limbs.
BigLess(a, b) ==
    IF Len(a) # Len(b) THEN Len(a) < Len(b)
    ELSE \E i \in 1..Len(a) :
            a[i] < b[i] /\ \A j \in (i + 1)..Len(a) : a[j] = b[j]

\* a * Limb^k
BigShiftLimbs(a, k) ==
    IF a = << >> THEN a ELSE [i \in 1..k |-> 0] \o a

\* a * b for numbers of at most four limbs (a mantissa has 53 bits): the
\* products of limbs are summed column by column, low and high halves
\* apart, and the two rows of column sums are added.
BigMul(a, b) ==
    LET product(i, c) == At(a, i) * At(b, c - i + 1)
        low(c)  == (product(1, c) % Limb) + (product(2, c) % Limb)
                     + (product(3, c) % Limb) + (product(4, c) % Limb)
        high(c) == (product(1, c) \div Limb) + (product(2, c) \div Limb)
                     + (product(3, c) \div Limb) + (product(4, c) \div Limb)
        column(c) == low(c) + (IF c > 1 THEN high(c - 1) ELSE 0)
    IN  BigAdd([c \in 1..9 |-> column(c) % Limb] \o << >>,
               [c \in 1..9 |-> IF c > 1 THEN column(c - 1) \div Limb ELSE 0]
                 \o << >>)

\* a divided by x, 0 < x < Limb: quotient and remainder, from the most
\* significant limb down.
RECURSIVE BigDivSmallFrom(_, _, _, _, _)
BigDivSmallFrom(a, x, i, rem, q) ==
    IF i = 0 THEN [q |-> BigTrim(q), r |-> rem]
    ELSE CHOOSE result \in
             { BigDivSmallFrom(a, x, i - 1, t % x, << t \div x >> \o done) :
                 t \in { rem * Limb + a[i] }, done \in { q } } : TRUE

BigDivSmall(a, x) == BigDivSmallFrom(a, x, Len(a), 0, << >>)

\* a * 2^k
BigShl(a, k) ==
    LET limbs == k \div 15
        bits  == k % 15
    IN  BigTrim([i \in 1..(Len(a) + limbs + 1) |->
                    ((At(a, i - limbs) * TwoTo(bits)) % Limb)
                      + (At(a, i - limbs - 1) \div TwoTo(15 - bits))])

\* a \div 2^k
BigShr(a, k) ==
    LET limbs == k \div 15
        bits  == k % 15
    IN  BigTrim([i \in 1..Max(0, Len(a) - limbs) |->
                    (At(a, i + limbs) \div TwoTo(bits))
                      + (At(a, i + limbs + 1) % TwoTo(bits)) * TwoTo(15 - bits)])

\* Bit k of a, the lowest being bit 0.
BigBit(a, k) == (At(a, k \div 15 + 1) \div TwoTo(k % 15)) % 2

\* Some bit of a below bit k is 1.
BigLowBits(a, k) ==
    \E i \in 1..Len(a) :
        \/ i <= k \div 15 /\ a[i] # 0
        \/ i = k \div 15 + 1 /\ a[i] % TwoTo(k % 15) # 0

BitLenOfLimb(x) ==
    CHOOSE k \in 0..15 :
        IF x = 0 THEN k = 0 ELSE k > 0 /\ TwoTo(k - 1) <= x /\ x < TwoTo(k)

BigBitLen(a) ==
    IF a = << >> THEN 0 ELSE 15 * (Len(a) - 1) + BitLenOfLimb(a[Len(a)])

BigOdd(a) == a # << >> /\ a[1] % 2 = 1

\* n * 2^e with what lies below n: n + 1 when that is more than half a unit,
\* or half a unit and n is odd.
RoundUp(n, e, roundBit, sticky) ==
    IF roundBit /\ (sticky \/ BigOdd(n))
      THEN [m |-> BigAdd(n, << 1 >>), e |-> e]
    ELSE [m |-> n, e |-> e]

\* Rounds n * 2^e to a double.  roundBit and sticky describe what lies
\* below n: the bit just below it, and whether anything lies below that.
Round(n, e, roundBit, sticky) ==
    LET d == BigBitLen(n) - 53
    IN  IF d > 0
          THEN RoundUp(BigShr(n, d), e + d, BigBit(n, d - 1) = 1,
                       sticky \/ roundBit \/ BigLowBits(n, d - 1))
        ELSE RoundUp(n, e, roundBit, sticky)

\* The double of an integer 0 <= n < 2^31.
DoubleOf(n) == [m |-> BigOfNat(n), e |-> 0]

\* The mantissa of x at exponent e <= x.e.
AtExponent(x, e) == BigShl(x.m, x.e - e)

\* An operation takes its operands by value: u and v below are the doubles
\* x and y stand for.
DoubleLess(x, y) ==
    \E u \in {x}, v \in {y} :
        BigLess(AtExponent(u, Min(u.e, v.e)), AtExponent(v, Min(u.e, v.e)))

DoubleAdd(x, y) ==
    CHOOSE r \in
        { Round(n, Min(u.e, v.e), FALSE, FALSE) :
            n \in { BigAdd(AtExponent(u, Min(u.e, v.e)),
                           AtExponent(v, Min(u.e, v.e))) :
                      u \in {x}, v \in {y} },
            u \in {x}, v \in {y} } : TRUE

\* x - y for x >= y.
DoubleSub(x, y) ==
    CHOOSE r \in
        { Round(n, Min(u.e, v.e), FALSE, FALSE) :
            n \in { BigSub(AtExponent(u, Min(u.e, v.e)),
                           AtExponent(v, Min(u.e, v.e))) :
                      u \in {x}, v \in {y} },
            u \in {x}, v \in {y} } : TRUE

DoubleMul(x, y) ==
    CHOOSE r \in
        { Round(n, u.e + v.e, FALSE, FALSE) :
            n \in { BigMul(u.m, v.m) : u \in {x}, v \in {y} },
            u \in {x}, v \in {y} } : TRUE

\* x / d for an integer 0 < d < Limb: the quotient is taken to 75 bits
\* below the mantissa of x, the remainder is the sticky part.
DoubleDivInt(x, d) ==
    CHOOSE r \in
        { Round(qr.q, u.e - 75, FALSE, qr.r # 0) :
            qr \in { BigDivSmall(BigShiftLimbs(u.m, 5), d) : u \in {x} },
            u \in {x} } : TRUE

\* Math.floor of a non-negative double below 2^31.
DoubleFloor(x) ==
    CHOOSE r \in { IF u.e >= 0 THEN BigToNat(BigShl(u.m, u.e))
                   ELSE BigToNat(BigShr(u.m, -u.e)) : u \in {x} } : TRUE

(* ------------------------ Sequence Formula Engine ---------------------- *)

\* params?.name ?? default
Param(params, name, default) ==
    IF name \in DOMAIN params THEN params[name] ELSE default

calculateLinear(index, params) ==
    Param(params, "multiplier", 1) * index + Param(params, "offset", 0)

\* Defined for a positive base; a base <= 0 throws (see formulaThrows).
calculateExponential(index, params) == Pow(Param(params, "base", 2), index)

\* Math.floor(multiplier * Math.sqrt(index) + offset), integer multiplier.
calculateSqrt(index, params) ==
    LET multiplier == Param(params, "multiplier", 1)
        offset     == Param(params, "offset", 0)
        sq         == Isqrt(multiplier * multiplier * index)
    IN  IF multiplier >= 0 THEN sq + offset
        ELSE IF sq * sq = multiplier * multiplier * index THEN offset - sq
        ELSE offset - sq - 1

\* Math.floor(max / (1 + Math.exp(-k * (index - inflection)))) for a k that
\* is a whole multiple of ln 2, kept as params.kLn2 (k = kLn2 * Math.LN2):
\* Math.exp then yields 2^x, x = -kLn2 * (index - inflection), up to a
\* relative error near 1e-15, and the quotient max / (1 + 2^x) of the
\* configurations of the model (max = 101, a prime) lies at least 1 / (1 +
\* 2^15) from every integer, so the floor is that of the exact quotient.
\* Beyond 2^30 the quotient is below 1; from 2^-16 down to 2^-52 it is
\* within 1 of max, below it; from 2^-54 down 1 + 2^x rounds to 1.  At x =
\* -53 the rounding of 1 + Math.exp(...) hangs on the last bit of Math.exp:
\* the model evaluates no sigmoid there.
calculateSigmoid(index, params) ==
    LET max == Param(params, "max", 100)
        x   == -params.kLn2 * (index - Param(params, "inflection", 15))
    IN  CASE x >= 0 /\ x <= 30 -> max \div (1 + Pow(2, x))
          [] x > 30 /\ max > 0 -> 0
          [] x < 0 /\ x >= -15 -> (max * Pow(2, -x)) \div (Pow(2, -x) + 1)
          [] x < -15 /\ x >= -52 /\ max > 0 /\ max < 32768 -> max - 1
          [] x <= -54 -> max

\* The sequence types the switch of calculateValue has a case for.  The
\* model computes all but the logarithmic one, which no configuration it
\* evaluates has.
SequenceTypes == {"linear", "exponential", "sqrt", "logarithmic", "sigmoid"}

\* The two throw sites inside the try block of calculateValue: a
\* non-positive exponential base and an unknown sequence type.
formulaThrows(config) ==
    \/ config.type \notin SequenceTypes
    \/ config.type = "exponential" /\ Param(config.params, "base", 2) <= 0

\* The try block of calculateValue: the floor of the value the switch
\* computes, or the Error thrown inside it.
tryFormula(config, idx) ==
    IF formulaThrows(config) THEN [threw |-> TRUE, value |-> 0]
    ELSE [ threw |-> FALSE,
           value |->
             CASE config.type = "linear" -> calculateLinear(idx, config.params)
               [] config.type = "exponential" ->
                    calculateExponential(idx, config.params)
               [] config.type = "sqrt" -> calculateSqrt(idx, config.params)
               [] config.type = "sigmoid" ->
                    calculateSigmoid(idx, config.params) ]

\* The catch block left out: the Error goes on to the caller.
catchError_rethrows(outcome) == outcome

\* The catch block of calculateValue: the Error is logged and 0 returned.
catchError(outcome) ==
    IF outcome.threw THEN [threw |-> FALSE, value |-> 0] ELSE outcome

\* How calculateValue ends: the number it returns, or the Error it lets
\* through.
calculateValueOutcome(config, index) ==
    catchError(tryFormula(config, IF index < 0 THEN 0 ELSE index))

calculateValue(config, index) == calculateValueOutcome(config, index).value

isMonotonicIncreasing(config) ==
    CASE config.type = "linear" -> Param(config.params, "multiplier", 1) >= 0
      [] config.type = "exponential" -> Param(config.params, "base", 2) >= 1
      [] config.type = "sqrt" -> Param(config.params, "multiplier", 1) >= 0
      [] config.type = "logarithmic" ->
            Param(config.params, "multiplier", 10) >= 0
      [] config.type = "sigmoid" -> TRUE
      [] OTHER -> FALSE

\* The while loop of binarySearchIndex, one iteration per call.
RECURSIVE binarySearchLoop(_, _, _, _, _, _)
binarySearchLoop(config, targetValue, left, right, closestIndex, closestDiff) ==
    IF left > right THEN closestIndex
    ELSE LET mid      == (left + right) \div 2
             midValue == calculateValue(config, mid)
             diff     == Abs(midValue - targetValue)
             better   == diff < closestDiff
             cIndex   == IF better THEN mid ELSE closestIndex
             cDiff    == IF better THEN diff ELSE closestDiff
         IN  IF midValue < targetValue
               THEN binarySearchLoop(config, targetValue, mid + 1, right, cIndex, cDiff)
             ELSE IF midValue > targetValue
               THEN binarySearchLoop(config, targetValue, left, mid - 1, cIndex, cDiff)
             ELSE mid

\* binarySearchIndex over the lower half of the indices only.
binarySearchIndex_lowerHalf(config, targetValue, minIndex, maxIndex) ==
    binarySearchLoop(config, targetValue, minIndex, maxIndex \div 2, minIndex,
                     Abs(calculateValue(config, minIndex) - targetValue))

binarySearchIndex(config, targetValue, minIndex, maxIndex) ==
    binarySearchLoop(config, targetValue, minIndex, maxIndex, minIndex,
                     Abs(calculateValue(config, minIndex) - targetValue))

\* The for loop of linearSearchIndex: the first index with the strictly
\* smallest difference.
linearSearchIndex(config, targetValue, maxIndex) ==
    LET diff(i) == Abs(calculateValue(config, i) - targetValue)
        best    == CHOOSE d \in {diff(i) : i \in 0..maxIndex} :
                      \A i \in 0..maxIndex : d <= diff(i)
    IN  CHOOSE i \in 0..maxIndex :
            diff(i) = best /\ \A j \in 0..(i - 1) : diff(j) # best

\* findClosestIndex without its first test: the search runs for any target.
findClosestIndex_searchesAlways(config, targetValue, maxIndex) ==
    IF isMonotonicIncreasing(config)
      THEN binarySearchIndex(config, targetValue, 0, maxIndex)
    ELSE linearSearchIndex(config, targetValue, maxIndex)

findClosestIndex(config, targetValue, maxIndex) ==
    IF targetValue <= 0 THEN 0
    ELSE IF isMonotonicIncreasing(config)
      THEN binarySearchIndex(config, targetValue, 0, maxIndex)
    ELSE linearSearchIndex(config, targetValue, maxIndex)

(* ------------------------------ the store ------------------------------ *)

\* The slices of the catalogue the model follows.  A slice is created with currentIndex 0 and
\* currentValue 0 (the column defaults; the create DTO carries neither).
\*   nut: a scheduled slice, due 09:00 + 30 min, one step lost per 15 min.
\*   zzz: a scheduled slice, due 23:00, one step lost per 30 min (its
\*        logarithmic increase curve is replaced by a linear one; zzz is
\*        raised only where the daily reset is followed).
\*   gym: a manual slice with exponential curves in both directions.
\*   hyd: a continuous slice, to be updated every 120 min, one step lost
\*        per 30 min beyond that.
\*   hyg: the composite slice, valued from its components.
\*   odd: a manual slice as POST /slices accepts it, whose exponential
\*        bases, 0 and -2, make the formula throw.
Catalog ==
    [ nut |-> [ increase |-> [type |-> "linear", params |-> [multiplier |-> 3]],
                decrease |-> [type |-> "exponential", params |-> [base |-> 2]],
                temporalType |-> "scheduled", expectedTime |-> 9 * 60,
                gracePeriod |-> 30, penaltyInterval |-> 15, penaltyAmount |-> -1,
                maxInterval |-> 0, resetDaily |-> TRUE, isComposite |-> FALSE ],
      zzz |-> [ increase |-> [type |-> "linear", params |-> [multiplier |-> 15]],
                decrease |-> [type |-> "linear", params |-> [multiplier |-> 5]],
                temporalType |-> "scheduled", expectedTime |-> 23 * 60,
                gracePeriod |-> 0, penaltyInterval |-> 30, penaltyAmount |-> -1,
                maxInterval |-> 0, resetDaily |-> TRUE, isComposite |-> FALSE ],
      gym |-> [ increase |-> [type |-> "exponential", params |-> [base |-> 2]],
                decrease |-> [type |-> "exponential", params |-> [base |-> 3]],
                temporalType |-> "manual", expectedTime |-> 0,
                gracePeriod |-> 0, penaltyInterval |-> 0, penaltyAmount |-> 0,
                maxInterval |-> 0, resetDaily |-> FALSE, isComposite |-> FALSE ],
      hyd |-> [ increase |-> [type |-> "linear", params |-> [multiplier |-> 5]],
                decrease |-> [type |-> "linear", params |-> [multiplier |-> 3]],
                temporalType |-> "continuous", expectedTime |-> 0,
                gracePeriod |-> 0, penaltyInterval |-> 30, penaltyAmount |-> -1,
                maxInterval |-> 120, resetDaily |-> FALSE, isComposite |-> FALSE ],
      hyg |-> [ increase |-> [type |-> "linear", params |-> << >>],
                decrease |-> [type |-> "linear", params |-> << >>],
                temporalType |-> "manual", expectedTime |-> 0,
                gracePeriod |-> 0, penaltyInterval |-> 0, penaltyAmount |-> 0,
                maxInterval |-> 0, resetDaily |-> FALSE, isComposite |-> TRUE ],
      odd |-> [ increase |-> [type |-> "exponential", params |-> [base |-> 0]],
                decrease |-> [type |-> "exponential", params |-> [base |-> -2]],
                temporalType |-> "manual", expectedTime |-> 0,
                gracePeriod |-> 0, penaltyInterval |-> 0, penaltyAmount |-> 0,
                maxInterval |-> 0, resetDaily |-> FALSE, isComposite |-> FALSE ] ]

SliceIds == DOMAIN Catalog

\* The order in which findMany returns the scheduled slices.
ScheduledSlices == << "nut", "zzz" >>

\* findMany of the continuous evaluator with no filter on temporalType
\* (zzz is scheduled).
ContinuousSlices_unfiltered == << "hyd", "zzz" >>

\* The order in which findMany returns the continuous slices.
ContinuousSlices == << "hyd" >>

\* The order in which findMany returns the composite slices.
CompositeSlices == << "hyg" >>

\* lastChecked of a component that was never checked (SQL NULL).
Null == -1

\* The SliceComponent rows of hyg the model follows, as the seed creates
\* them: never checked, at value 0 (two of the five seeded ones).
Components ==
    [ teeth   |-> [ sliceId |-> "hyg", weight |-> 30, maxValue |-> 100,
                    currentValue |-> 0, decayType |-> "daily",
                    decayRate |-> 20, lastChecked |-> Null ],
      shower  |-> [ sliceId |-> "hyg", weight |-> 25, maxValue |-> 100,
                    currentValue |-> 0, decayType |-> "daily",
                    decayRate |-> 30, lastChecked |-> Null ] ]

\* The order in which findMany returns the components (the order the seed
\* creates the five in).
ComponentKeys == << "teeth", "shower", "nails", "haircut", "shave" >>

VARIABLES
    slices,     \* Slice rows: id -> [currentIndex, currentValue]
    updates,    \* SliceUpdate rows in creation order
    components, \* SliceComponent rows: key -> [sliceId, weight, maxValue,
                \* currentValue, decayType, decayRate, lastChecked]
    componentUpdates,   \* SliceComponentUpdate rows in creation order
    now,        \* the clock, minutes since midnight of day 0
    lastCall,   \* the handler that ran last in the sequential specification,
                \* its arguments, its outcome and the time it ran at
    calls       \* in-flight calls of the interleaved specifications

vars == << slices, updates, components, componentUpdates, now, lastCall, calls >>

\* The rows of the composite slice.
compositeVars == << components, componentUpdates >>

\* The persisted state, as one value the handlers transform.
Store ==
    [ slices |-> slices, updates |-> updates,
      components |-> components, componentUpdates |-> componentUpdates ]

\* An INTEGER column accepts the value.
Storable(v) == v > -INT4_MAX /\ v < INT4_MAX

(* ------------------------------ TimeUtils ------------------------------ *)

minutesElapsed(from, to) == to - from

getStartOfDay(date) == (date \div MinutesPerDay) * MinutesPerDay

isSameDay(date1, date2) == date1 \div MinutesPerDay = date2 \div MinutesPerDay

\* timeString is kept as minutes after midnight ("09:00" is 540).
isPastScheduledTime(timeString, gracePeriodMinutes, t) ==
    LET expectedTime == getStartOfDay(t) + timeString
        deadlineTime == expectedTime + gracePeriodMinutes
    IN  [ isPast |-> t > deadlineTime,
          minutesLate |-> Max(0, minutesElapsed(deadlineTime, t)) ]

(* -------------------------- Slice Update Engine ------------------------ *)

\* selectConfig with the direction ignored.
selectConfig_increaseOnly(id, isIncrease) == Catalog[id].increase

\* The sequence configuration an update selects.
selectConfig(id, isIncrease) ==
    IF isIncrease THEN Catalog[id].increase ELSE Catalog[id].decrease

\* What a call has decided once it has read the slice: the values it is
\* going to write.  error is "none", "validation" or "persistence".
Plan(id, delta, deltaType, slice, newIndex, newValue, automatic, error) ==
    [ sliceId |-> id, delta |-> delta, deltaType |-> deltaType,
      oldIndex |-> slice.currentIndex, oldValue |-> slice.currentValue,
      newIndex |-> newIndex, newValue |-> newValue,
      automatic |-> automatic, error |-> error ]

\* findOne raises NotFoundException: no slice row carries the id.
findOneThrows(st, id) == id \notin DOMAIN st.slices

\* planError with composite slices let through.
planError_compositeAllowed(id, newValue) ==
    IF ~Storable(newValue) THEN "persistence" ELSE "none"

\* The fault that ends a call before its first write: the validation error
\* for a composite slice, or a persistence fault of sliceUpdate.create (a
\* value no INTEGER column holds).
planError(id, newValue) ==
    IF Catalog[id].isComposite THEN "validation"
    ELSE IF ~Storable(newValue) THEN "persistence"
    ELSE "none"

\* planBySteps without the clamp of the new index.
planBySteps_unclamped(id, slice, steps, automatic) ==
    LET newIndex == slice.currentIndex + steps
        config   == selectConfig(id, steps >= 0)
        newValue == calculateValue(config, newIndex)
    IN  Plan(id, steps, "steps", slice, newIndex, newValue, automatic,
             planError(id, newValue))

planBySteps(id, slice, steps, automatic) ==
    LET newIndex == Max(0, Min(slice.currentIndex + steps, MAX_INDEX))
        config   == selectConfig(id, steps >= 0)
        newValue == calculateValue(config, newIndex)
    IN  Plan(id, steps, "steps", slice, newIndex, newValue, automatic,
             planError(id, newValue))

\* percentageTarget taking the percentage of the value as the target.
percentageTarget_ofValue(oldValue, percentage) ==
    Max(0, (oldValue * percentage) \div 100)

\* Math.floor(oldValue * (1 + percentage / 100)), exact for the percentages
\* of the model (1 + percentage / 100 is a binary fraction for -100, -50, 50).
percentageTarget(oldValue, percentage) ==
    Max(0, (oldValue * (100 + percentage)) \div 100)

planByPercentage(id, slice, percentage) ==
    LET targetValue == percentageTarget(slice.currentValue, percentage)
        config      == selectConfig(id, percentage >= 0)
        newIndex    == findClosestIndex(config, targetValue, MAX_INDEX)
        newValue    == calculateValue(config, newIndex)
    IN  Plan(id, percentage, "percentage", slice, newIndex, newValue, FALSE,
             planError(id, newValue))

\* planToValue choosing the increase formula only for a strictly larger value.
planToValue_strict(id, slice, value) ==
    LET config   == selectConfig(id, value > slice.currentValue)
        newIndex == findClosestIndex(config, value, MAX_INDEX)
        newValue == calculateValue(config, newIndex)
    IN  IF ~Catalog[id].isComposite /\ value < 0
          THEN Plan(id, value, "absolute", slice, slice.currentIndex,
                    slice.currentValue, FALSE, "validation")
        ELSE Plan(id, value, "absolute", slice, newIndex, newValue, FALSE,
                  planError(id, newValue))

planToValue(id, slice, value) ==
    LET config   == selectConfig(id, value >= slice.currentValue)
        newIndex == findClosestIndex(config, value, MAX_INDEX)
        newValue == calculateValue(config, newIndex)
    IN  IF ~Catalog[id].isComposite /\ value < 0
          THEN Plan(id, value, "absolute", slice, slice.currentIndex,
                    slice.currentValue, FALSE, "validation")
        ELSE Plan(id, value, "absolute", slice, newIndex, newValue, FALSE,
                  planError(id, newValue))

\* prisma.sliceUpdate.create: the audit row, dated by the store's clock.
sliceUpdateCreate(st, plan, t) ==
    [ st EXCEPT !.updates = Append(@,
        [ sliceId |-> plan.sliceId, delta |-> plan.delta,
          deltaType |-> plan.deltaType,
          valueBefore |-> plan.oldValue, valueAfter |-> plan.newValue,
          indexBefore |-> plan.oldIndex, indexAfter |-> plan.newIndex,
          date |-> t, automatic |-> plan.automatic ]) ]

\* sliceUpdate writing currentValue alone.
sliceUpdate_valueOnly(st, plan) ==
    [ st EXCEPT !.slices[plan.sliceId].currentValue = plan.newValue ]

\* prisma.slice.update of currentIndex / currentValue.
sliceUpdate(st, plan) ==
    [ st EXCEPT !.slices[plan.sliceId] =
        [currentIndex |-> plan.newIndex, currentValue |-> plan.newValue] ]

\* A whole call run without interruption: read, audit row, slice mutation.
runPlan(st, plan, t) ==
    IF plan.error # "none" THEN st
    ELSE sliceUpdate(sliceUpdateCreate(st, plan, t), plan)

updateBySteps(st, t, id, steps, automatic) ==
    IF findOneThrows(st, id) THEN st
    ELSE runPlan(st, planBySteps(id, st.slices[id], steps, automatic), t)

updateByPercentage(st, t, id, percentage) ==
    IF findOneThrows(st, id) THEN st
    ELSE runPlan(st, planByPercentage(id, st.slices[id], percentage), t)

updateToValue(st, t, id, value) ==
    IF findOneThrows(st, id) THEN st
    ELSE runPlan(st, planToValue(id, st.slices[id], value), t)

\* remove: prisma.slice.delete, which raises when no slice row carries the
\* id; the foreign keys of SliceComponent, SliceUpdate and
\* SliceComponentUpdate are declared ON DELETE CASCADE, so the rows that
\* refer to the slice, and the rows that refer to its components, go with it.
remove(st, id) ==
    IF id \notin DOMAIN st.slices THEN st
    ELSE LET kept == {key \in DOMAIN st.components :
                         st.components[key].sliceId # id}
         IN  [ slices |-> [i \in DOMAIN st.slices \ {id} |-> st.slices[i]],
               updates |-> SelectSeq(st.updates, LAMBDA row : row.sliceId # id),
               components |-> [key \in kept |-> st.components[key]],
               componentUpdates |->
                   SelectSeq(st.componentUpdates,
                             LAMBDA row : row.componentKey \in kept) ]

\* How a call ends: "none" when it returns the updated slice, otherwise the
\* error it raises ("notFound", "validation", "persistence").
outcomeBySteps(st, id, steps) ==
    IF findOneThrows(st, id) THEN "notFound"
    ELSE planBySteps(id, st.slices[id], steps, FALSE).error

outcomeByPercentage(st, id, percentage) ==
    IF findOneThrows(st, id) THEN "notFound"
    ELSE planByPercentage(id, st.slices[id], percentage).error

outcomeToValue(st, id, value) ==
    IF findOneThrows(st, id) THEN "notFound"
    ELSE planToValue(id, st.slices[id], value).error

(* ---------------------- ScheduledSliceScheduler ------------------------- *)

\* latestUpdate ordering the rows by date ascending.
latestUpdate_oldest(rows, id) ==
    LET own == {i \in 1..Len(rows) : rows[i].sliceId = id}
    IN  IF own = {} THEN 0 ELSE CHOOSE i \in own : \A j \in own : j >= i

\* latestUpdate over the user-initiated rows alone.
latestUpdate_userOnly(rows, id) ==
    LET own == {i \in 1..Len(rows) : rows[i].sliceId = id /\ ~rows[i].automatic}
    IN  IF own = {} THEN 0 ELSE CHOOSE i \in own : \A j \in own : j <= i

\* include: { updates: { orderBy: { date: 'desc' }, take: 1 } } -- the
\* position of the slice's latest row in the table, 0 when it has none.
latestUpdate(rows, id) ==
    LET own == {i \in 1..Len(rows) : rows[i].sliceId = id}
    IN  IF own = {} THEN 0 ELSE CHOOSE i \in own : \A j \in own : j <= i

\* The slice as findMany returns it: its id and its latest update (a
\* sequence of at most one row).
findManySnapshot(st, id) ==
    [ id |-> id,
      updates |-> IF latestUpdate(st.updates, id) = 0 THEN << >>
                  ELSE << st.updates[latestUpdate(st.updates, id)] >> ]

\* hasReportedToday with the automatic flag read the wrong way round.
hasReportedToday_automatic(snapshot, t) ==
    /\ Len(snapshot.updates) > 0
    /\ snapshot.updates[1].automatic
    /\ isSameDay(snapshot.updates[1].date, t)

hasReportedToday(snapshot, t) ==
    /\ Len(snapshot.updates) > 0
    /\ ~snapshot.updates[1].automatic
    /\ isSameDay(snapshot.updates[1].date, t)

penaltiesDue(id, t) ==
    isPastScheduledTime(Catalog[id].expectedTime, Catalog[id].gracePeriod, t).minutesLate
        \div Catalog[id].penaltyInterval

\* prisma.sliceUpdate.count({ sliceId, automatic: true, date >= today })
automaticUpdatesToday(rows, id, today) ==
    Cardinality({i \in 1..Len(rows) :
        rows[i].sliceId = id /\ rows[i].automatic /\ rows[i].date >= today})

penaltiesToApply(rows, id, t, today) ==
    Max(0, penaltiesDue(id, t) - automaticUpdatesToday(rows, id, today))

\* The evaluator has a penalty to write for the slice it was handed.
mustPenalize(snapshot, rows, t, today) ==
    /\ ~hasReportedToday(snapshot, t)
    /\ isPastScheduledTime(Catalog[snapshot.id].expectedTime,
                           Catalog[snapshot.id].gracePeriod, t).isPast
    /\ penaltiesDue(snapshot.id, t) > 0
    /\ penaltiesToApply(rows, snapshot.id, t, today) > 0

\* totalDelta charging one penalty per tick.
totalDelta_perTick(rows, id, t, today) == Catalog[id].penaltyAmount

totalDelta(rows, id, t, today) ==
    penaltiesToApply(rows, id, t, today) * Catalog[id].penaltyAmount

\* evaluateScheduledSlice, run without interruption.  threw records that
\* updateBySteps rejected, which ends the sweep's loop.
evaluateScheduledSlice(st, snapshot, t, today) ==
    IF ~mustPenalize(snapshot, st.updates, t, today)
      THEN [st |-> st, threw |-> FALSE]
    ELSE LET plan == planBySteps(snapshot.id, st.slices[snapshot.id],
                         totalDelta(st.updates, snapshot.id, t, today), TRUE)
         IN  [st |-> runPlan(st, plan, t), threw |-> plan.error # "none"]

\* The for loop of checkScheduledSlices over the slices findMany returned,
\* inside its try block: the first rejection ends the loop.
RECURSIVE sweepScheduled(_, _, _, _, _)
sweepScheduled(st, snapshots, k, t, today) ==
    IF k > Len(snapshots) THEN st
    ELSE LET r == evaluateScheduledSlice(st, snapshots[k], t, today)
         IN  IF r.threw THEN r.st
             ELSE sweepScheduled(r.st, snapshots, k + 1, t, today)

checkScheduledSlices(st, t) ==
    sweepScheduled(st,
        [k \in 1..Len(ScheduledSlices) |-> findManySnapshot(st, ScheduledSlices[k])],
        1, t, getStartOfDay(t))

(* ---------------------- ContinuousSliceScheduler ------------------------ *)

minutesSinceUpdate(snapshot, t) == minutesElapsed(snapshot.updates[1].date, t)

\* excessMinutes without the allowance of maxInterval.
excessMinutes_sinceUpdate(snapshot, t) == minutesSinceUpdate(snapshot, t)

excessMinutes(snapshot, t) ==
    minutesSinceUpdate(snapshot, t) - Catalog[snapshot.id].maxInterval

\* Math.floor(excessMinutes / penaltyInterval), for excessMinutes > 0.
continuousPenaltiesDue(snapshot, t) ==
    excessMinutes(snapshot, t) \div Catalog[snapshot.id].penaltyInterval

\* automaticPenaltiesSinceUpdate counting the rows of every slice.
automaticPenaltiesSinceUpdate_anySlice(rows, snapshot) ==
    Cardinality({i \in 1..Len(rows) :
        /\ rows[i].automatic
        /\ rows[i].date > snapshot.updates[1].date})

\* prisma.sliceUpdate.count({ sliceId, automatic: true, date > lastUpdate.date })
automaticPenaltiesSinceUpdate(rows, snapshot) ==
    Cardinality({i \in 1..Len(rows) :
        /\ rows[i].sliceId = snapshot.id
        /\ rows[i].automatic
        /\ rows[i].date > snapshot.updates[1].date})

continuousPenaltiesToApply(rows, snapshot, t) ==
    Max(0, continuousPenaltiesDue(snapshot, t)
             - automaticPenaltiesSinceUpdate(rows, snapshot))

\* The evaluator has a penalty to write for the slice it was handed.
mustPenalizeContinuous(snapshot, rows, t) ==
    /\ Len(snapshot.updates) > 0
    /\ minutesSinceUpdate(snapshot, t) > Catalog[snapshot.id].maxInterval
    /\ continuousPenaltiesDue(snapshot, t) > 0
    /\ continuousPenaltiesToApply(rows, snapshot, t) > 0

\* evaluateContinuousSlice, run without interruption.  threw records that
\* updateBySteps rejected, which ends the sweep's loop.
evaluateContinuousSlice(st, snapshot, t) ==
    IF ~mustPenalizeContinuous(snapshot, st.updates, t)
      THEN [st |-> st, threw |-> FALSE]
    ELSE LET plan == planBySteps(snapshot.id, st.slices[snapshot.id],
                         continuousPenaltiesToApply(st.updates, snapshot, t)
                           * Catalog[snapshot.id].penaltyAmount, TRUE)
         IN  [st |-> runPlan(st, plan, t), threw |-> plan.error # "none"]

\* The for loop of checkContinuousSlices, inside its try block.
RECURSIVE sweepContinuous(_, _, _, _)
sweepContinuous(st, snapshots, k, t) ==
    IF k > Len(snapshots) THEN st
    ELSE LET r == evaluateContinuousSlice(st, snapshots[k], t)
         IN  IF r.threw THEN r.st
             ELSE sweepContinuous(r.st, snapshots, k + 1, t)

checkContinuousSlices(st, t) ==
    sweepContinuous(st,
        [k \in 1..Len(ContinuousSlices) |-> findManySnapshot(st, ContinuousSlices[k])],
        1, t)

(* ------------------------- SliceTemporalService ------------------------ *)

\* resetDailySlices: every slice flagged resetDaily goes to index 0, value 0.
resetDailySlices(st) ==
    [ st EXCEPT !.slices =
        [id \in SliceIds |->
            IF Catalog[id].resetDaily
              THEN [currentIndex |-> 0, currentValue |-> 0]
            ELSE st.slices[id]] ]

\* The order in which findMany({ where: { resetDaily: true } }) returns the
\* slices.
DailySlices == << "nut", "zzz" >>

\* The body of the loop with the index alone reset.
resetSlice_indexOnly(st, id, faults) ==
    IF id \in faults THEN st
    ELSE [ st EXCEPT !.slices[id].currentIndex = 0 ]

\* The body of the loop of resetDailySlices: slice.update raises for the
\* slices of faults, which the catch of the body logs.
resetSlice(st, id, faults) ==
    IF id \in faults THEN st
    ELSE [ st EXCEPT !.slices[id] = [currentIndex |-> 0, currentValue |-> 0] ]

\* The loop of resetDailySlices from the k-th slice on.
RECURSIVE resetFrom(_, _, _)
resetFrom(st, k, faults) ==
    IF k > Len(DailySlices) THEN st
    ELSE resetFrom(resetSlice(st, DailySlices[k], faults), k + 1, faults)

\* resetDailySlices while slice.update raises for the slices of faults.
resetDailySlicesUnder(st, faults) == resetFrom(st, 1, faults)

(* ------------------------ CompositeSliceService ------------------------ *)
(* Times are whole minutes, so elapsedMs is 60000 times the minutes; the   *)
(* double nearest to a quotient does not change when both terms lose the   *)
(* factor 60000, and the divisions are taken over minutes.                 *)
(***************************************************************************)

DecayTypes == {"hourly", "daily", "weekly"}

\* The minutes of one period of a decay type.
PeriodMinutes(decayType) ==
    CASE decayType = "hourly" -> 60
      [] decayType = "daily"  -> 24 * 60
      [] decayType = "weekly" -> 7 * 24 * 60

\* findMany({ where: { sliceId } }): the keys of the components of a slice.
RECURSIVE componentKeysFrom(_, _, _)
componentKeysFrom(st, id, k) ==
    IF k > Len(ComponentKeys) THEN << >>
    ELSE (IF /\ ComponentKeys[k] \in DOMAIN st.components
             /\ st.components[ComponentKeys[k]].sliceId = id
            THEN << ComponentKeys[k] >>
          ELSE << >>) \o componentKeysFrom(st, id, k + 1)

componentKeysOf(st, id) == componentKeysFrom(st, id, 1)

\* applyDecay: the value of a component at time t, a double.
applyDecay(component, t) ==
    IF component.lastChecked = Null THEN DoubleOf(0)
    ELSE IF component.decayType \notin DecayTypes
      THEN DoubleOf(component.currentValue)
    ELSE LET periods == DoubleDivInt(DoubleOf(t - component.lastChecked),
                                     PeriodMinutes(component.decayType))
             decayAmount == DoubleMul(periods, DoubleOf(component.decayRate))
             currentValue == DoubleOf(component.currentValue)
         IN  IF DoubleLess(currentValue, decayAmount) THEN DoubleOf(0)
             ELSE DoubleSub(currentValue, decayAmount)

\* The loop of calculateCompositeValue: weightedSum after the components
\* from the k-th on.
RECURSIVE weightedSumFrom(_, _, _, _, _)
weightedSumFrom(st, keys, k, t, weightedSum) ==
    IF k > Len(keys) THEN weightedSum
    ELSE LET component == st.components[keys[k]]
         IN  weightedSumFrom(st, keys, k + 1, t,
                 DoubleAdd(weightedSum,
                     DoubleMul(applyDecay(component, t),
                               DoubleDivInt(DoubleOf(component.weight), 100))))

RECURSIVE totalWeightFrom(_, _, _)
totalWeightFrom(st, keys, k) ==
    IF k > Len(keys) THEN 0
    ELSE st.components[keys[k]].weight + totalWeightFrom(st, keys, k + 1)

\* calculateCompositeValue of a composite slice at time t.
calculateCompositeValue(st, id, t) ==
    LET keys == componentKeysOf(st, id)
        totalWeight == totalWeightFrom(st, keys, 1)
        weightedSum == weightedSumFrom(st, keys, 1, t, DoubleOf(0))
    IN  IF Len(keys) = 0 THEN 0
        ELSE IF totalWeight = 0 THEN 0
        ELSE DoubleFloor(DoubleDivInt(DoubleMul(weightedSum, DoubleOf(100)),
                                      totalWeight))

\* sliceComponentUpdate.create; the notes of a row are "none" for a user
\* update made without notes and "decay" for 'Automatic decay: ...'.
componentUpdateCreate(st, key, valueBefore, valueAfter, notes, t) ==
    [ st EXCEPT !.componentUpdates =
        Append(@, [ componentKey |-> key, valueBefore |-> valueBefore,
                    valueAfter |-> valueAfter, notes |-> notes,
                    date |-> t ]) ]

\* sliceComponent.update without lastChecked.
componentCheck_valueOnly(st, key, newValue, t) ==
    [ st EXCEPT !.components[key].currentValue = newValue ]

\* sliceComponent.update of a user update: the value and lastChecked.
componentCheck(st, key, newValue, t) ==
    [ st EXCEPT !.components[key].currentValue = newValue,
                !.components[key].lastChecked = t ]

\* slice.update({ currentValue }) of the parent.
parentUpdate(st, id, compositeValue) ==
    [ st EXCEPT !.slices[id].currentValue = compositeValue ]

\* The exception updateComponent and updateMultipleComponents raise before
\* they look at a component, or "none".
compositeError(st, id) ==
    IF id \notin DOMAIN st.slices THEN "notFound"
    ELSE IF ~Catalog[id].isComposite THEN "validation"
    ELSE "none"

\* value ?? component.maxValue
valueOrMax(component, hasValue, value) ==
    IF hasValue THEN value ELSE component.maxValue

valueRefused_negativeOnly(component, newValue) == newValue < 0

\* newValue < 0 || newValue > component.maxValue
valueRefused(component, newValue) ==
    newValue < 0 \/ newValue > component.maxValue

\* The exception updateComponent raises, or "none".
outcomeUpdateComponent(st, id, key, hasValue, value) ==
    IF compositeError(st, id) # "none" THEN compositeError(st, id)
    ELSE IF \A k \in 1..Len(componentKeysOf(st, id)) :
                componentKeysOf(st, id)[k] # key
      THEN "notFound"
    ELSE LET component == st.components[key]
             newValue == valueOrMax(component, hasValue, value)
         IN  IF valueRefused(component, newValue) THEN "validation"
             ELSE "none"

updateComponent(st, t, id, key, hasValue, value) ==
    IF outcomeUpdateComponent(st, id, key, hasValue, value) # "none" THEN st
    ELSE LET component == st.components[key]
             newValue == valueOrMax(component, hasValue, value)
             created == componentUpdateCreate(st, key, component.currentValue,
                                              newValue, "none", t)
             checked == componentCheck(created, key, newValue, t)
         IN  parentUpdate(checked, id, calculateCompositeValue(checked, id, t))

\* The loop of updateMultipleComponents from the k-th key on; the old value
\* of a row is read from the components findUnique returned.
RECURSIVE checkComponentsFrom(_, _, _, _, _, _)
checkComponentsFrom(st, snapshot, id, keys, k, t) ==
    IF k > Len(keys) THEN st
    ELSE LET key == keys[k]
         IN  IF key \notin DOMAIN snapshot \/ snapshot[key].sliceId # id
               THEN checkComponentsFrom(st, snapshot, id, keys, k + 1, t)
             ELSE checkComponentsFrom(
                      componentCheck(
                          componentUpdateCreate(st, key,
                              snapshot[key].currentValue,
                              snapshot[key].maxValue, "none", t),
                          key, snapshot[key].maxValue, t),
                      snapshot, id, keys, k + 1, t)

\* updateMultipleComponents with the composite value computed before the
\* loop.
updateMultipleComponents_valueFirst(st, t, id, keys) ==
    IF compositeError(st, id) # "none" THEN st
    ELSE LET checked == checkComponentsFrom(st, st.components, id, keys, 1, t)
         IN  parentUpdate(checked, id, calculateCompositeValue(st, id, t))

updateMultipleComponents(st, t, id, keys) ==
    IF compositeError(st, id) # "none" THEN st
    ELSE LET checked == checkComponentsFrom(st, st.components, id, keys, 1, t)
         IN  parentUpdate(checked, id, calculateCompositeValue(checked, id, t))

\* The writes updateMultipleComponents awaits in its loop from the k-th key
\* on, in order: sliceComponentUpdate.create and sliceComponent.update for
\* a key the slice holds, none for another.
RECURSIVE checkWritesFrom(_, _, _, _)
checkWritesFrom(snapshot, id, keys, k) ==
    IF k > Len(keys) THEN << >>
    ELSE LET key == keys[k]
         IN  IF key \notin DOMAIN snapshot \/ snapshot[key].sliceId # id
               THEN checkWritesFrom(snapshot, id, keys, k + 1)
             ELSE << [ call |-> "sliceComponentUpdate.create", key |-> key,
                       valueBefore |-> snapshot[key].currentValue,
                       valueAfter |-> snapshot[key].maxValue ],
                     [ call |-> "sliceComponent.update", key |-> key,
                       valueBefore |-> snapshot[key].currentValue,
                       valueAfter |-> snapshot[key].maxValue ] >>
                  \o checkWritesFrom(snapshot, id, keys, k + 1)

\* The store after the writes of a log from the k-th on.
RECURSIVE applyWrites(_, _, _, _)
applyWrites(st, log, k, t) ==
    IF k > Len(log) THEN st
    ELSE LET w == log[k]
         IN  applyWrites(
                 CASE w.call = "sliceComponentUpdate.create" ->
                        componentUpdateCreate(st, w.key, w.valueBefore,
                                              w.valueAfter, "none", t)
                   [] w.call = "sliceComponent.update" ->
                        componentCheck(st, w.key, w.valueAfter, t)
                   [] w.call = "slice.update" ->
                        parentUpdate(st, w.key, w.valueAfter),
                 log, k + 1, t)

\* Every write updateMultipleComponents awaits, in order: the ones of its
\* loop, then slice.update with what calculateCompositeValue returned.
writesOfMultiple(st, t, id, keys) ==
    IF compositeError(st, id) # "none" THEN << >>
    ELSE LET loop == checkWritesFrom(st.components, id, keys, 1)
             checked == applyWrites(st, loop, 1, t)
         IN  loop \o << [ call |-> "slice.update", key |-> id,
                          valueBefore |-> st.slices[id].currentValue,
                          valueAfter |->
                              calculateCompositeValue(checked, id, t) ] >>

\* recalculateAllCompositeSlices from the k-th composite slice on.
RECURSIVE recalculateFrom(_, _, _)
recalculateFrom(st, k, t) ==
    IF k > Len(CompositeSlices) THEN st
    ELSE recalculateFrom(
             parentUpdate(st, CompositeSlices[k],
                          calculateCompositeValue(st, CompositeSlices[k], t)),
             k + 1, t)

recalculateAllCompositeSlices(st, t) == recalculateFrom(st, 1, t)

(* ------------------------ CompositeDecayScheduler ---------------------- *)

\* TimeUtils.hoursElapsed, daysElapsed, weeksElapsed: each divides the
\* double the one before returned.
hoursElapsed(from, to) == DoubleDivInt(DoubleOf(minutesElapsed(from, to)), 60)

daysElapsed(from, to) == DoubleDivInt(hoursElapsed(from, to), 24)

weeksElapsed(from, to) == DoubleDivInt(daysElapsed(from, to), 7)

periodsElapsed(component, t) ==
    CASE component.decayType = "hourly" -> hoursElapsed(component.lastChecked, t)
      [] component.decayType = "daily"  -> daysElapsed(component.lastChecked, t)
      [] component.decayType = "weekly" -> weeksElapsed(component.lastChecked, t)

decayTooEarly_never(periods) == FALSE

\* periodsElapsed < 1
decayTooEarly(periods) == DoubleLess(periods, DoubleOf(1))

\* Math.max(0, component.currentValue - decayAmount)
decayedValue(currentValue, decayAmount) == Max(0, currentValue - decayAmount)

\* Math.floor(periodsElapsed * component.decayRate)
decayAmountOf(periods, decayRate) ==
    DoubleFloor(DoubleMul(periods, DoubleOf(decayRate)))

\* decayComponent up to its first await: whether the component, as findMany
\* returned it, gets a new value at time t, and the value.
decayOf(component, t) ==
    IF component.lastChecked = Null \/ component.decayType \notin DecayTypes
      THEN [decays |-> FALSE, newValue |-> component.currentValue]
    ELSE LET periods     == periodsElapsed(component, t)
             decayAmount == decayAmountOf(periods, component.decayRate)
             newValue    == decayedValue(component.currentValue, decayAmount)
         IN  IF \/ decayTooEarly(periods)
                \/ decayAmount <= 0
                \/ newValue = component.currentValue
               THEN [decays |-> FALSE, newValue |-> component.currentValue]
             ELSE [decays |-> TRUE, newValue |-> newValue]

\* decayComponent returns true.
componentDecays(component, t) == decayOf(component, t).decays

\* decayComponent that also sets lastChecked, as a check-off does.
decayComponent_stampsLastChecked(st, component, key, t) ==
    LET decay == decayOf(component, t)
    IN  IF ~decay.decays THEN st
        ELSE componentUpdateCreate(
                 [st EXCEPT !.components[key].currentValue = decay.newValue,
                            !.components[key].lastChecked = t],
                 key, component.currentValue, decay.newValue, "decay", t)

\* decayComponent: the value is written, lastChecked is left as it is, and
\* a SliceComponentUpdate row records the change.
decayComponent(st, component, key, t) ==
    LET decay == decayOf(component, t)
    IN  IF ~decay.decays THEN st
        ELSE componentUpdateCreate(
                 [st EXCEPT !.components[key].currentValue = decay.newValue],
                 key, component.currentValue, decay.newValue, "decay", t)

\* The loop of recalculateCompositeValue: the stored values, no decay.
RECURSIVE storedSumFrom(_, _, _, _)
storedSumFrom(st, keys, k, weightedSum) ==
    IF k > Len(keys) THEN weightedSum
    ELSE LET component == st.components[keys[k]]
         IN  storedSumFrom(st, keys, k + 1,
                 DoubleAdd(weightedSum,
                     DoubleMul(DoubleOf(component.currentValue),
                               DoubleDivInt(DoubleOf(component.weight), 100))))

recalculateCompositeValue(st, id) ==
    LET keys == componentKeysOf(st, id)
        totalWeight == totalWeightFrom(st, keys, 1)
        weightedSum == storedSumFrom(st, keys, 1, DoubleOf(0))
    IN  IF Len(keys) = 0 THEN st
        ELSE parentUpdate(st, id,
                 IF totalWeight > 0
                   THEN DoubleFloor(DoubleDivInt(
                            DoubleMul(weightedSum, DoubleOf(100)), totalWeight))
                 ELSE 0)

\* The loop of decayCompositeSlice over the components findMany returned.
RECURSIVE decayComponentsFrom(_, _, _, _, _)
decayComponentsFrom(st, snapshot, keys, k, t) ==
    IF k > Len(keys) THEN st
    ELSE decayComponentsFrom(
             decayComponent(st, snapshot[keys[k]], keys[k], t),
             snapshot, keys, k + 1, t)

decayCompositeSlice(st, snapshot, id, t) ==
    LET keys == componentKeysOf([st EXCEPT !.components = snapshot], id)
        hasChanges == \E k \in 1..Len(keys) : componentDecays(snapshot[keys[k]], t)
        decayed == decayComponentsFrom(st, snapshot, keys, 1, t)
    IN  IF hasChanges THEN recalculateCompositeValue(decayed, id) ELSE decayed

\* applyCompositeDecay from the k-th composite slice on.
RECURSIVE sweepDecay(_, _, _, _)
sweepDecay(st, snapshot, k, t) ==
    IF k > Len(CompositeSlices) THEN st
    ELSE sweepDecay(decayCompositeSlice(st, snapshot, CompositeSlices[k], t),
                    snapshot, k + 1, t)

applyCompositeDecay(st, t) == sweepDecay(st, st.components, 1, t)

(* ---------------------- the sequential specification ------------------- *)

\* The user-initiated updates the model issues, as << slice, argument >>.
\* The manual slice gym is only stepped.
StepRequests ==
    ({"nut"} \X {-1, 2, MAX_INDEX}) \cup ({"gym"} \X {2, MAX_INDEX})

PercentageRequests == {"nut"} \X {-100, -50, 50}

ValueRequests == {"nut"} \X {0, 5}

\* The clock starts a quarter of an hour after the deadline of nut (09:45),
\* or a quarter of an hour before midnight (23:45).
WindowStarts == {9 * 60 + 45, 23 * 60 + 45}

WindowStart(t) == IF t < 23 * 60 + 45 THEN 9 * 60 + 45 ELSE 23 * 60 + 45

\* The scheduling collaborator fires every quarter of an hour
\* (@Cron('*/15 * * * *')); the clock moves on that grid.
CronPeriod == 15

NoCall ==
    [op |-> "none", sliceId |-> "none", arg |-> 0, outcome |-> "none", at |-> 0]

Idle == [pc |-> "idle"]

Procs == {"u1", "u2", "tick"}

\* The rows after the seed, no call made and none in flight.
InitStore ==
    /\ slices = [id \in SliceIds |-> [currentIndex |-> 0, currentValue |-> 0]]
    /\ updates = << >>
    /\ components = Components
    /\ componentUpdates = << >>
    /\ lastCall = NoCall
    /\ calls = [p \in Procs |-> Idle]

Init ==
    /\ InitStore
    /\ now \in WindowStarts

\* A handler of the sequential specification takes the store to st.
Ran(op, id, arg, outcome, st) ==
    /\ slices' = st.slices
    /\ updates' = st.updates
    /\ components' = st.components
    /\ componentUpdates' = st.componentUpdates
    /\ lastCall' = [ op |-> op, sliceId |-> id, arg |-> arg,
                     outcome |-> outcome, at |-> now ]
    /\ UNCHANGED << now, calls >>

UpdateBySteps(id, steps) ==
    /\ Len(updates) < MaxUpdates
    /\ Ran("updateBySteps", id, steps, outcomeBySteps(Store, id, steps),
           updateBySteps(Store, now, id, steps, FALSE))

UpdateByPercentage(id, percentage) ==
    /\ Len(updates) < MaxUpdates
    /\ Ran("updateByPercentage", id, percentage,
           outcomeByPercentage(Store, id, percentage),
           updateByPercentage(Store, now, id, percentage))

UpdateToValue(id, value) ==
    /\ Len(updates) < MaxUpdates
    /\ Ran("updateToValue", id, value, outcomeToValue(Store, id, value),
           updateToValue(Store, now, id, value))

CheckScheduledSlices ==
    /\ Len(checkScheduledSlices(Store, now).updates) <= MaxUpdates
    /\ Ran("checkScheduledSlices", "none", 0, "none",
           checkScheduledSlices(Store, now))

\* The cron entry '0 0 * * *'.
ResetDailySlices ==
    /\ now % MinutesPerDay = 0
    /\ Ran("resetDailySlices", "none", 0, "none", resetDailySlices(Store))

Advance ==
    /\ now + CronPeriod - WindowStart(now) <= MaxTicks * CronPeriod
    /\ now' = now + CronPeriod
    /\ UNCHANGED << slices, updates, compositeVars, lastCall, calls >>

Next ==
    \/ \E r \in StepRequests : UpdateBySteps(r[1], r[2])
    \/ \E r \in PercentageRequests : UpdateByPercentage(r[1], r[2])
    \/ \E r \in ValueRequests : UpdateToValue(r[1], r[2])
    \/ CheckScheduledSlices
    \/ ResetDailySlices
    \/ Advance

Spec == Init /\ [][Next]_vars

(* ----------------- the continuous evaluator over the hours ------------- *)
(* The user reports on hyd; the clock leaps nine cron periods (135 min,    *)
(* past the 120 min allowance of hyd) from the evening the model starts    *)
(* at, then runs cron period by cron period; the continuous evaluator      *)
(* sweeps at any of these instants, any number of times.                   *)
(***************************************************************************)

Evening == 23 * 60 + 45

Leap == 9 * CronPeriod

ContinuousRequests == {"hyd"} \X {2}

\* A sweep that repeats the previous one at the same instant is recorded
\* as run 2.
RunNumber(op) == IF lastCall.op = op /\ lastCall.at = now THEN 2 ELSE 1

AutomaticRows(rows) == {i \in 1..Len(rows) : rows[i].automatic}

CheckContinuousSlices ==
    /\ Cardinality(AutomaticRows(checkContinuousSlices(Store, now).updates))
          <= MaxPenalties
    /\ Ran("checkContinuousSlices", "none", RunNumber("checkContinuousSlices"),
           "none", checkContinuousSlices(Store, now))

Elapse ==
    LET d == IF now = Evening THEN Leap ELSE CronPeriod
    IN  /\ now + d <= Evening + Leap + MaxLate * CronPeriod
        /\ now' = now + d
        /\ UNCHANGED << slices, updates, compositeVars, lastCall, calls >>

NextContinuous ==
    \/ \E r \in ContinuousRequests : UpdateBySteps(r[1], r[2])
    \/ CheckContinuousSlices
    \/ Elapse

\* The evening the clock starts at.
InitEvening ==
    /\ InitStore
    /\ now = Evening

SpecContinuous == InitEvening /\ [][NextContinuous]_vars

(* ----------------- the scheduled evaluator over the days --------------- *)
(* The user raises slices in the evening; the clock passes from one        *)
(* evening to the next; the scheduled evaluator sweeps.                    *)
(***************************************************************************)

Tomorrow ==
    /\ now + MinutesPerDay < (MaxDays + 1) * MinutesPerDay
    /\ now' = now + MinutesPerDay
    /\ UNCHANGED << slices, updates, compositeVars, lastCall, calls >>

NextDays ==
    \/ \E r \in StepRequests : UpdateBySteps(r[1], r[2])
    \/ CheckScheduledSlices
    \/ Tomorrow

SpecDays == InitEvening /\ [][NextDays]_vars

(* --------------------------- the daily reset --------------------------- *)
(* The user raises slices a quarter of an hour before midnight; at         *)
(* midnight the reset job runs, while slice.update raises for some of the  *)
(* slices, for all or for none.                                            *)
(***************************************************************************)

ResetRequests == {"nut", "zzz", "gym"} \X {2}

ResetDailySlicesUnder(faults) ==
    /\ now % MinutesPerDay = 0
    /\ Ran("resetDailySlices", "none", faults, "none",
           resetDailySlicesUnder(Store, faults))

NextReset ==
    \/ \E r \in ResetRequests : UpdateBySteps(r[1], r[2])
    \/ \E faults \in SUBSET {"nut", "zzz"} : ResetDailySlicesUnder(faults)
    \/ Advance

SpecReset == InitEvening /\ [][NextReset]_vars

(* ------------------- the composite slice over the days ----------------- *)
(* The user checks components of hyg off, some requests being ones the     *)
(* service refuses; the clock moves half a day at a time from noon, which  *)
(* keeps it on the hours the decay scheduler fires at (@Cron('0 * * * *')).*)
(***************************************************************************)

Noon == 12 * 60

HalfDay == 12 * 60

\* updateComponent requests, as << slice, component, value given, value >>:
\* two the service serves, two it refuses.
ComponentRequests ==
    { << "hyg", "teeth", FALSE, 0 >>, << "hyg", "shower", TRUE, 10 >>,
      << "hyg", "shower", TRUE, 101 >>, << "hyg", "teeth", TRUE, -1 >> }

\* updateMultipleComponents requests, as << slice, componentKeys >>.
MultipleRequests == { << "hyg", << "shower", "ghost", "teeth" >> >> }

\* The store holds MaxComponentUpdates rows and the call would add one: the
\* model does not follow it.
RowsFull(addsRow) ==
    addsRow /\ Len(componentUpdates) >= MaxComponentUpdates

UpdateComponent(id, key, hasValue, value) ==
    /\ ~RowsFull(outcomeUpdateComponent(Store, id, key, hasValue, value) = "none")
    /\ \E st \in { updateComponent(Store, now, id, key, hasValue, value) } :
          /\ Len(st.componentUpdates) <= MaxComponentUpdates
          /\ Ran("updateComponent", id, << key, hasValue, value >>,
                 outcomeUpdateComponent(Store, id, key, hasValue, value), st)

UpdateMultipleComponents(id, keys) ==
    /\ ~RowsFull(/\ compositeError(Store, id) = "none"
                 /\ \E k \in 1..Len(keys) :
                       /\ keys[k] \in DOMAIN components
                       /\ components[keys[k]].sliceId = id)
    /\ \E st \in { updateMultipleComponents(Store, now, id, keys) } :
          /\ Len(st.componentUpdates) <= MaxComponentUpdates
          /\ Ran("updateMultipleComponents", id, keys,
                 compositeError(Store, id), st)

ApplyCompositeDecay ==
    /\ ~RowsFull(\E key \in DOMAIN components :
                    /\ \E k \in 1..Len(CompositeSlices) :
                          components[key].sliceId = CompositeSlices[k]
                    /\ componentDecays(components[key], now))
    /\ \E st \in { applyCompositeDecay(Store, now) } :
          /\ Len(st.componentUpdates) <= MaxComponentUpdates
          /\ Ran("applyCompositeDecay", "none",
                 RunNumber("applyCompositeDecay"), "none", st)

Later ==
    /\ now + HalfDay <= Noon + (MaxDays + 1) * HalfDay
    /\ now' = now + HalfDay
    /\ UNCHANGED << slices, updates, compositeVars, lastCall, calls >>

NextComposite ==
    \/ \E r \in ComponentRequests : UpdateComponent(r[1], r[2], r[3], r[4])
    \/ \E r \in MultipleRequests : UpdateMultipleComponents(r[1], r[2])
    \/ ApplyCompositeDecay
    \/ Later

InitComposite ==
    /\ InitStore
    /\ now = Noon

SpecComposite == InitComposite /\ [][NextComposite]_vars

(* -------------------------- a key given twice -------------------------- *)
(* The user checks components of hyg off, in calls of                      *)
(* updateMultipleComponents among them one whose key list names teeth      *)
(* twice; the decay scheduler ticks; the clock moves half a day at a time. *)
(***************************************************************************)

\* updateMultipleComponents requests, as << slice, componentKeys >>.
RepeatedKeyRequests ==
    { << "hyg", << "teeth", "teeth" >> >>, << "hyg", << "shower", "teeth" >> >> }

NextRepeated ==
    \/ \E r \in ComponentRequests : UpdateComponent(r[1], r[2], r[3], r[4])
    \/ \E r \in RepeatedKeyRequests : UpdateMultipleComponents(r[1], r[2])
    \/ ApplyCompositeDecay
    \/ Later

SpecRepeated == InitComposite /\ [][NextRepeated]_vars

(* ------------------------- slices being removed ------------------------ *)
(* The user steps the manual slice and checks components off, and removes  *)
(* the manual slice or the composite one (DELETE /slices/:id), once or     *)
(* again.                                                                  *)
(***************************************************************************)

RemoveRequests == {"gym", "hyg"}

HistoryRequests == {"gym"} \X {2, MAX_INDEX}

Remove(id) ==
    \E st \in { remove(Store, id) } :
        Ran("remove", id, 0,
            IF id \in DOMAIN slices THEN "none" ELSE "notFound", st)

NextHistory ==
    \/ \E r \in HistoryRequests : UpdateBySteps(r[1], r[2])
    \/ \E r \in ComponentRequests : UpdateComponent(r[1], r[2], r[3], r[4])
    \/ \E id \in RemoveRequests : Remove(id)

SpecHistory == Init /\ [][NextHistory]_vars

(* ---------------------- the check-offs of components ------------------ *)
(* The user checks components of hyg off, one by one or several in a call, *)
(* at noon of one day or another; next to the requests above come two more *)
(* updateComponent refuses (a slice that is not composite, a key hyg does   *)
(* not hold) and a batch whose only key hyg does not hold.                  *)
(***************************************************************************)

RefusedComponentRequests ==
    { << "nut", "teeth", FALSE, 0 >>, << "hyg", "ghost", FALSE, 0 >> }

UnknownKeyRequests == { << "hyg", << "ghost" >> >> }

NextCheckOffs ==
    \/ \E r \in ComponentRequests \cup RefusedComponentRequests :
          UpdateComponent(r[1], r[2], r[3], r[4])
    \/ \E r \in MultipleRequests \cup UnknownKeyRequests :
          UpdateMultipleComponents(r[1], r[2])
    \/ Tomorrow

SpecCheckOffs == InitComposite /\ [][NextCheckOffs]_vars

(* ------------- calculateCompositeValue over component tables ---------- *)
(* hyg holds a table of components drawn from the sets below; the          *)
(* maintenance handler recalculateAllCompositeSlices stores what           *)
(* calculateCompositeValue returns for it, at noon or later.               *)
(***************************************************************************)

WeightInputs == {0, 29, 30}

ValueInputs == {0, 50, 100}

CheckedInputs == {Null, Noon}

\* The rows teeth and shower may be: the seeded decay, any weight, value
\* and lastChecked of the inputs.
RowInputs(key) ==
    { [ Components[key] EXCEPT !.weight = w, !.currentValue = v,
                                !.lastChecked = c ] :
        w \in WeightInputs, v \in ValueInputs, c \in CheckedInputs }

\* The five seeded components, all checked off at noon at their maxValue.
SeededAtMax ==
    [ teeth   |-> [ sliceId |-> "hyg", weight |-> 30, maxValue |-> 100,
                    currentValue |-> 100, decayType |-> "daily",
                    decayRate |-> 20, lastChecked |-> Noon ],
      shower  |-> [ sliceId |-> "hyg", weight |-> 25, maxValue |-> 100,
                    currentValue |-> 100, decayType |-> "daily",
                    decayRate |-> 30, lastChecked |-> Noon ],
      nails   |-> [ sliceId |-> "hyg", weight |-> 20, maxValue |-> 100,
                    currentValue |-> 100, decayType |-> "weekly",
                    decayRate |-> 10, lastChecked |-> Noon ],
      haircut |-> [ sliceId |-> "hyg", weight |-> 15, maxValue |-> 100,
                    currentValue |-> 100, decayType |-> "weekly",
                    decayRate |-> 5, lastChecked |-> Noon ],
      shave   |-> [ sliceId |-> "hyg", weight |-> 10, maxValue |-> 100,
                    currentValue |-> 100, decayType |-> "daily",
                    decayRate |-> 15, lastChecked |-> Noon ] ]

\* No component, one, two, or the seeded five.
ComponentTables ==
    { << >>, SeededAtMax }
      \cup { [key \in {"teeth"} |-> row] : row \in RowInputs("teeth") }
      \cup { [key \in {"teeth", "shower"} |->
                IF key = "teeth" THEN teeth ELSE shower] :
               teeth \in RowInputs("teeth"), shower \in RowInputs("shower") }

InitValue ==
    /\ slices = [id \in SliceIds |-> [currentIndex |-> 0, currentValue |-> 0]]
    /\ updates = << >>
    /\ components \in ComponentTables
    /\ componentUpdates = << >>
    /\ now = Noon
    /\ lastCall = NoCall
    /\ calls = [p \in Procs |-> Idle]

RecalculateAllCompositeSlices ==
    \E st \in { recalculateAllCompositeSlices(Store, now) } :
        Ran("recalculateAllCompositeSlices", "none",
            RunNumber("recalculateAllCompositeSlices"), "none", st)

NextValue ==
    \/ RecalculateAllCompositeSlices
    \/ Later

SpecValue == InitValue /\ [][NextValue]_vars

(* ------------------- the recalculation over two slices ----------------- *)
(* A second composite slice, fit, with one component, stands next to hyg.  *)
(* recalculateAllCompositeSlices runs over both while the store fails for  *)
(* some of them, at calculateCompositeValue (its findMany) or at the       *)
(* slice.update that persists the value.                                   *)
(***************************************************************************)

\* The composite slices in the order findMany returns them.
BatchSlices == << "hyg", "fit" >>

FaultSites == {"calculate", "persist"}

\* The try block of the loop of recalculateAllCompositeSlices for one
\* slice: the value is calculated and persisted, or the store raises.
tryRecalculate(st, id, t, faults) ==
    IF \E site \in FaultSites : << id, site >> \in faults
      THEN [st |-> st, threw |-> TRUE]
    ELSE [ st |-> parentUpdate(st, id, calculateCompositeValue(st, id, t)),
           threw |-> FALSE ]

\* The catch block left out: the Error ends the loop.
catchSliceError_rethrows(r) == r

\* The catch block inside the loop: the Error is logged.
catchSliceError(r) == [r EXCEPT !.threw = FALSE]

\* The for loop of recalculateAllCompositeSlices from the k-th slice on.
RECURSIVE recalculateUnderFrom(_, _, _, _)
recalculateUnderFrom(st, k, t, faults) ==
    IF k > Len(BatchSlices) THEN st
    ELSE LET r == catchSliceError(tryRecalculate(st, BatchSlices[k], t, faults))
         IN  IF r.threw THEN r.st
             ELSE recalculateUnderFrom(r.st, k + 1, t, faults)

recalculateAllUnder(st, t, faults) == recalculateUnderFrom(st, 1, t, faults)

\* The component rows of the two slices: teeth of hyg and nails of fit,
\* checked off at noon at one of two values.
BatchValues == {50, 100}

BatchComponents ==
    { [ teeth |-> [ sliceId |-> "hyg", weight |-> 30, maxValue |-> 100,
                    currentValue |-> v, decayType |-> "daily",
                    decayRate |-> 20, lastChecked |-> Noon ],
        nails |-> [ sliceId |-> "fit", weight |-> 20, maxValue |-> 100,
                    currentValue |-> w, decayType |-> "weekly",
                    decayRate |-> 10, lastChecked |-> Noon ] ] :
        v \in BatchValues, w \in BatchValues }

InitBatch ==
    /\ slices = [id \in SliceIds \cup {"fit"} |->
                    [currentIndex |-> 0, currentValue |-> 0]]
    /\ updates = << >>
    /\ components \in BatchComponents
    /\ componentUpdates = << >>
    /\ now = Noon
    /\ lastCall = NoCall
    /\ calls = [p \in Procs |-> Idle]

\* The faults of a run: none, one slice at either site, both slices.
BatchFaults ==
    { {}, { << "hyg", "calculate" >> }, { << "hyg", "persist" >> },
      { << "fit", "persist" >> },
      { << "hyg", "persist" >>, << "fit", "calculate" >> } }

RecalculateAllUnder(faults) ==
    \E st \in { recalculateAllUnder(Store, now, faults) } :
        Ran("recalculateAllCompositeSlices", "none", faults, "none", st)

NextBatch ==
    \/ \E faults \in BatchFaults : RecalculateAllUnder(faults)
    \/ Later

SpecBatch == InitBatch /\ [][NextBatch]_vars

(* --------------------- the specification of refusals ------------------- *)
(* The update engine under requests it must refuse, next to requests it    *)
(* serves: a composite slice, an id no slice carries, a negative absolute  *)
(* value.                                                                  *)
(***************************************************************************)

RefusedStepRequests == {"hyg", "ghost"} \X {2}

RefusedPercentageRequests == {"hyg", "ghost"} \X {50}

RefusedValueRequests == ({"hyg", "ghost"} \X {5}) \cup ({"nut", "hyg"} \X {-1})

NextRefusals ==
    \/ \E r \in StepRequests \cup RefusedStepRequests :
          UpdateBySteps(r[1], r[2])
    \/ \E r \in PercentageRequests \cup RefusedPercentageRequests :
          UpdateByPercentage(r[1], r[2])
    \/ \E r \in ValueRequests \cup RefusedValueRequests :
          UpdateToValue(r[1], r[2])

SpecRefusals == Init /\ [][NextRefusals]_vars

(* ---------------------- the interleaved specification ------------------ *)
(* Every await of a handler is a point where another call may run.  A call *)
(* of the update engine is: findOne (Begin), sliceUpdate.create (Create),  *)
(* slice.update (Write).  A sweep of the scheduled evaluator is: findMany  *)
(* with the checks that follow it (TickFindMany), sliceUpdate.count        *)
(* (TickCount), then a call of updateBySteps (TickFindOne, Create, Write). *)
(***************************************************************************)

Users == {"u1", "u2"}

\* Calls that have still to create their row.
Pending == {p \in Procs : calls[p].pc \in {"count", "findOne", "create"}}

\* The two users are interchangeable: u2 stands for a request that arrives
\* while a request of u1 is in flight.
CanStart(p) ==
    /\ calls[p].pc \in {"idle", "failed"}
    /\ p = "u2" => calls["u1"].pc \in {"create", "write"}
    /\ Len(updates) + Cardinality(Pending) < MaxUpdates

\* findOne and the synchronous code up to the first write.
Begin(p, plan) ==
    /\ CanStart(p)
    /\ plan.error = "none"
    /\ calls' = [calls EXCEPT ![p] = [pc |-> "create", plan |-> plan]]
    /\ UNCHANGED << slices, updates, compositeVars, now, lastCall >>

BeginBySteps(p, id, steps) ==
    Begin(p, planBySteps(id, slices[id], steps, FALSE))

BeginByPercentage(p, id, percentage) ==
    Begin(p, planByPercentage(id, slices[id], percentage))

BeginToValue(p, id, value) ==
    Begin(p, planToValue(id, slices[id], value))

\* await this.prisma.sliceUpdate.create(...)
Create(p) ==
    /\ calls[p].pc = "create"
    /\ updates' = sliceUpdateCreate(Store, calls[p].plan, now).updates
    /\ calls' = [calls EXCEPT ![p].pc = "write"]
    /\ UNCHANGED << slices, compositeVars, now, lastCall >>

\* await this.prisma.slice.update(...)
Write(p) ==
    /\ calls[p].pc = "write"
    /\ slices' = sliceUpdate(Store, calls[p].plan).slices
    /\ calls' = [calls EXCEPT ![p] = Idle]
    /\ UNCHANGED << updates, compositeVars, now, lastCall >>

\* The call ends between its two writes: the process stops, or slice.update
\* raises a persistence fault.
Fail(p) ==
    /\ calls[p].pc = "write"
    /\ calls' = [calls EXCEPT ![p] = [pc |-> "failed"]]
    /\ UNCHANGED << slices, updates, compositeVars, now, lastCall >>

\* findMany, const now = new Date(), and evaluateScheduledSlice up to its
\* await of sliceUpdate.count; the sweep is followed over the first slice
\* findMany returns.
TickFindMany ==
    LET snapshot == findManySnapshot(Store, ScheduledSlices[1])
        id       == snapshot.id
    IN  /\ CanStart("tick")
        /\ calls' = [calls EXCEPT !["tick"] =
              IF /\ ~hasReportedToday(snapshot, now)
                 /\ isPastScheduledTime(Catalog[id].expectedTime,
                                        Catalog[id].gracePeriod, now).isPast
                 /\ penaltiesDue(id, now) > 0
                THEN [pc |-> "count", snapshot |-> snapshot, t |-> now,
                      today |-> getStartOfDay(now)]
              ELSE Idle]
        /\ UNCHANGED << slices, updates, compositeVars, now, lastCall >>

\* sliceUpdate.count returns; penaltiesToApply is decided.
TickCount ==
    LET c == calls["tick"]
    IN  /\ c.pc = "count"
        /\ calls' = [calls EXCEPT !["tick"] =
              IF penaltiesToApply(updates, c.snapshot.id, c.t, c.today) > 0
                THEN [pc |-> "findOne", snapshot |-> c.snapshot,
                      delta |-> totalDelta(updates, c.snapshot.id, c.t, c.today)]
              ELSE Idle]
        /\ UNCHANGED << slices, updates, compositeVars, now, lastCall >>

\* applyAutomaticPenalty: updateBySteps reads the slice.
TickFindOne ==
    LET c    == calls["tick"]
        plan == planBySteps(c.snapshot.id, slices[c.snapshot.id], c.delta, TRUE)
    IN  /\ c.pc = "findOne"
        /\ calls' = [calls EXCEPT !["tick"] =
              IF plan.error = "none" THEN [pc |-> "create", plan |-> plan]
              ELSE Idle]
        /\ UNCHANGED << slices, updates, compositeVars, now, lastCall >>

NextConc ==
    \/ \E p \in Users, r \in StepRequests : BeginBySteps(p, r[1], r[2])
    \/ \E p \in Users, r \in PercentageRequests :
          BeginByPercentage(p, r[1], r[2])
    \/ \E p \in Users, r \in ValueRequests : BeginToValue(p, r[1], r[2])
    \/ \E p \in Procs : Create(p)
    \/ \E p \in Procs : Write(p)
    \/ \E p \in Procs : Fail(p)
    \/ TickFindMany
    \/ TickCount
    \/ TickFindOne
    \/ Advance

SpecConc == Init /\ [][NextConc]_vars

(* ------------------- runAllChecks, evaluator by evaluator -------------- *)
(* runAllChecks starts the three evaluators and awaits them together       *)
(* (Promise.all).  Every await of an evaluator is a point where the other  *)
(* two may run: findMany, sliceUpdate.count, then findOne, sliceUpdate     *)
(* .create and slice.update of updateBySteps for the penalty evaluators;   *)
(* findMany, sliceComponent.update, sliceComponentUpdate.create, then      *)
(* findMany and slice.update of recalculateCompositeValue for the decay    *)
(* evaluator.  The store the run starts from is one the user's reports of  *)
(* noon built; the clock stands while the run is in flight.                *)
(***************************************************************************)

Seeded ==
    [ slices |-> [id \in SliceIds |-> [currentIndex |-> 0, currentValue |-> 0]],
      updates |-> << >>,
      components |-> Components,
      componentUpdates |-> << >> ]

\* The stores the reports of noon leave: nut raised or not, hyd raised or
\* not, teeth checked off or not, shower set to 10 or not.
AfterNut == {Seeded, updateBySteps(Seeded, Noon, "nut", 2, FALSE)}

AfterHyd ==
    AfterNut \cup {updateBySteps(st, Noon, "hyd", 2, FALSE) : st \in AfterNut}

AfterTeeth ==
    AfterHyd \cup
        {updateComponent(st, Noon, "hyg", "teeth", FALSE, 0) : st \in AfterHyd}

ReportedStores ==
    AfterTeeth \cup
        {updateComponent(st, Noon, "hyg", "shower", TRUE, 10) : st \in AfterTeeth}

PenaltyEvaluators == {"scheduled", "continuous"}

Evaluators == PenaltyEvaluators \cup {"decay"}

Done == [pc |-> "done"]

InitAll ==
    /\ \E st \in ReportedStores :
          /\ slices = st.slices
          /\ updates = st.updates
          /\ components = st.components
          /\ componentUpdates = st.componentUpdates
    /\ now = Noon
    /\ lastCall = NoCall
    /\ calls = [p \in Evaluators \cup {"runAllChecks"} |-> Idle]

\* The three evaluators run one after another at time t.
runSequentially(st, t) ==
    applyCompositeDecay(
        checkContinuousSlices(checkScheduledSlices(st, t), t), t)

\* runAllChecks calls the three evaluators; each runs up to its findMany.
RunAllChecks ==
    /\ \A p \in DOMAIN calls : calls[p].pc = "idle"
    /\ calls' = [p \in DOMAIN calls |->
                    IF p = "runAllChecks"
                      THEN [pc |-> "awaiting", base |-> Store]
                    ELSE [pc |-> "findMany"]]
    /\ lastCall' = [ op |-> "runAllChecks", sliceId |-> "none", arg |-> 0,
                     outcome |-> "none", at |-> now ]
    /\ UNCHANGED << slices, updates, compositeVars, now >>

\* Promise.all resolves.
RunAllChecksReturns ==
    /\ calls["runAllChecks"].pc = "awaiting"
    /\ \A p \in Evaluators : calls[p].pc = "done"
    /\ calls' = [calls EXCEPT !["runAllChecks"].pc = "done"]
    /\ UNCHANGED << slices, updates, compositeVars, now, lastCall >>

EvaluatorSlices(p) ==
    IF p = "scheduled" THEN ScheduledSlices ELSE ContinuousSlices

\* The evaluator passes from the k-th slice of its loop to the next.
nextSlice(c) ==
    IF c.k < Len(c.snapshots)
      THEN [pc |-> "checks", snapshots |-> c.snapshots, t |-> c.t, k |-> c.k + 1]
    ELSE Done

\* The checks of evaluateScheduledSlice / evaluateContinuousSlice that come
\* before the await of sliceUpdate.count.
passesChecks(p, snapshot, t) ==
    IF p = "scheduled"
      THEN /\ ~hasReportedToday(snapshot, t)
           /\ isPastScheduledTime(Catalog[snapshot.id].expectedTime,
                                  Catalog[snapshot.id].gracePeriod, t).isPast
           /\ penaltiesDue(snapshot.id, t) > 0
    ELSE /\ Len(snapshot.updates) > 0
         /\ minutesSinceUpdate(snapshot, t) > Catalog[snapshot.id].maxInterval
         /\ continuousPenaltiesDue(snapshot, t) > 0

\* The steps the evaluator asks updateBySteps for once sliceUpdate.count
\* has returned over rows; 0 when no penalty is left to apply.
stepsAfterCount(p, rows, snapshot, t) ==
    IF p = "scheduled"
      THEN totalDelta(rows, snapshot.id, t, getStartOfDay(t))
    ELSE continuousPenaltiesToApply(rows, snapshot, t)
           * Catalog[snapshot.id].penaltyAmount

\* prisma.slice.findMany returns, const now = new Date().
EvaluatorFindMany(p) ==
    /\ calls[p].pc = "findMany"
    /\ calls' = [calls EXCEPT ![p] =
          IF Len(EvaluatorSlices(p)) = 0 THEN Done
          ELSE [ pc |-> "checks", t |-> now, k |-> 1,
                 snapshots |-> [k \in 1..Len(EvaluatorSlices(p)) |->
                     findManySnapshot(Store, EvaluatorSlices(p)[k])] ]]
    /\ UNCHANGED << slices, updates, compositeVars, now, lastCall >>

\* The evaluation of the k-th slice up to sliceUpdate.count.
EvaluatorChecks(p) ==
    LET c == calls[p]
    IN  /\ c.pc = "checks"
        /\ calls' = [calls EXCEPT ![p] =
              IF passesChecks(p, c.snapshots[c.k], c.t)
                THEN [c EXCEPT !.pc = "count"]
              ELSE nextSlice(c)]
        /\ UNCHANGED << slices, updates, compositeVars, now, lastCall >>

\* sliceUpdate.count returns.
EvaluatorCount(p) ==
    LET c     == calls[p]
        steps == stepsAfterCount(p, updates, c.snapshots[c.k], c.t)
    IN  /\ c.pc = "count"
        /\ calls' = [calls EXCEPT ![p] =
              IF steps # 0
                THEN [ pc |-> "findOne", snapshots |-> c.snapshots, t |-> c.t,
                       k |-> c.k, steps |-> steps ]
              ELSE nextSlice(c)]
        /\ UNCHANGED << slices, updates, compositeVars, now, lastCall >>

\* updateBySteps reads the slice; an exception it raises ends the sweep.
EvaluatorFindOne(p) ==
    LET c    == calls[p]
        id   == c.snapshots[c.k].id
        plan == planBySteps(id, slices[id], c.steps, TRUE)
    IN  /\ c.pc = "findOne"
        /\ calls' = [calls EXCEPT ![p] =
              IF plan.error = "none"
                THEN [ pc |-> "create", snapshots |-> c.snapshots, t |-> c.t,
                       k |-> c.k, plan |-> plan ]
              ELSE Done]
        /\ UNCHANGED << slices, updates, compositeVars, now, lastCall >>

\* await this.prisma.sliceUpdate.create(...)
EvaluatorCreate(p) ==
    LET c == calls[p]
    IN  /\ c.pc = "create"
        /\ updates' = sliceUpdateCreate(Store, c.plan, now).updates
        /\ calls' = [calls EXCEPT ![p].pc = "write"]
        /\ UNCHANGED << slices, compositeVars, now, lastCall >>

\* await this.prisma.slice.update(...)
EvaluatorWrite(p) ==
    LET c == calls[p]
    IN  /\ c.pc = "write"
        /\ slices' = sliceUpdate(Store, c.plan).slices
        /\ calls' = [calls EXCEPT ![p] = nextSlice(c)]
        /\ UNCHANGED << updates, compositeVars, now, lastCall >>

\* The components of the j-th composite slice, as findMany returned them.
snapshotKeys(c) ==
    componentKeysOf([Seeded EXCEPT !.components = c.snapshot],
                    CompositeSlices[c.j])

\* The decay evaluator passes from the j-th composite slice to the next.
nextComposite(c) ==
    IF c.j < Len(CompositeSlices)
      THEN [ pc |-> "component", snapshot |-> c.snapshot, t |-> c.t,
             j |-> c.j + 1, k |-> 1, hasChanges |-> FALSE ]
    ELSE Done

\* prisma.slice.findMany({ include: { components: true } }) returns.
DecayFindMany ==
    /\ calls["decay"].pc = "findMany"
    /\ calls' = [calls EXCEPT !["decay"] =
          IF Len(CompositeSlices) = 0 THEN Done
          ELSE [ pc |-> "component", snapshot |-> components, t |-> now,
                 j |-> 1, k |-> 1, hasChanges |-> FALSE ]]
    /\ UNCHANGED << slices, updates, compositeVars, now, lastCall >>

\* decayComponent up to its first await, sliceComponent.update, or to its
\* return of false; past the last component, the loop of decayCompositeSlice
\* ends.
DecayComponent ==
    LET c    == calls["decay"]
        keys == snapshotKeys(c)
    IN  /\ c.pc = "component"
        /\ IF c.k > Len(keys)
             THEN /\ calls' = [calls EXCEPT !["decay"] =
                        IF c.hasChanges THEN [c EXCEPT !.pc = "recalculate"]
                        ELSE nextComposite(c)]
                  /\ UNCHANGED components
           ELSE \E decay \in {decayOf(c.snapshot[keys[c.k]], c.t)} :
                  IF decay.decays
                    THEN /\ components' =
                              [components EXCEPT ![keys[c.k]].currentValue =
                                  decay.newValue]
                         /\ calls' = [calls EXCEPT !["decay"] =
                               [ pc |-> "log", snapshot |-> c.snapshot,
                                 t |-> c.t, j |-> c.j, k |-> c.k,
                                 hasChanges |-> c.hasChanges,
                                 newValue |-> decay.newValue ]]
                  ELSE /\ calls' = [calls EXCEPT !["decay"].k = c.k + 1]
                       /\ UNCHANGED components
        /\ UNCHANGED << slices, updates, componentUpdates, now, lastCall >>

\* await this.prisma.sliceComponentUpdate.create(...); decayComponent
\* returns true.
DecayLog ==
    LET c         == calls["decay"]
        key       == snapshotKeys(c)[c.k]
        component == c.snapshot[key]
    IN  /\ c.pc = "log"
        /\ componentUpdates' =
              componentUpdateCreate(Store, key, component.currentValue,
                  c.newValue, "decay", c.t).componentUpdates
        /\ calls' = [calls EXCEPT !["decay"] =
              [ pc |-> "component", snapshot |-> c.snapshot, t |-> c.t,
                j |-> c.j, k |-> c.k + 1, hasChanges |-> TRUE ]]
        /\ UNCHANGED << slices, updates, components, now, lastCall >>

\* recalculateCompositeValue reads the components and computes the value.
DecayRecalculate ==
    LET c  == calls["decay"]
        id == CompositeSlices[c.j]
    IN  /\ c.pc = "recalculate"
        /\ calls' = [calls EXCEPT !["decay"] =
              IF Len(componentKeysOf(Store, id)) = 0 THEN nextComposite(c)
              ELSE [ pc |-> "parent", snapshot |-> c.snapshot, t |-> c.t,
                     j |-> c.j, k |-> c.k, hasChanges |-> c.hasChanges,
                     value |-> recalculateCompositeValue(Store, id)
                                   .slices[id].currentValue ]]
        /\ UNCHANGED << slices, updates, compositeVars, now, lastCall >>

\* await this.prisma.slice.update({ data: { currentValue } })
DecayParent ==
    LET c == calls["decay"]
    IN  /\ c.pc = "parent"
        /\ slices' = parentUpdate(Store, CompositeSlices[c.j], c.value).slices
        /\ calls' = [calls EXCEPT !["decay"] = nextComposite(c)]
        /\ UNCHANGED << updates, compositeVars, now, lastCall >>

\* The clock moves while no run is in flight.
Wait ==
    /\ calls["runAllChecks"].pc = "idle"
    /\ Later

NextAll ==
    \/ RunAllChecks
    \/ RunAllChecksReturns
    \/ \E p \in PenaltyEvaluators : EvaluatorFindMany(p)
    \/ \E p \in PenaltyEvaluators : EvaluatorChecks(p)
    \/ \E p \in PenaltyEvaluators : EvaluatorCount(p)
    \/ \E p \in PenaltyEvaluators : EvaluatorFindOne(p)
    \/ \E p \in PenaltyEvaluators : EvaluatorCreate(p)
    \/ \E p \in PenaltyEvaluators : EvaluatorWrite(p)
    \/ DecayFindMany
    \/ DecayComponent
    \/ DecayLog
    \/ DecayRecalculate
    \/ DecayParent
    \/ Wait

SpecAll == InitAll /\ [][NextAll]_vars

(* ---------------------- runAllChecks under faults ---------------------- *)
(* The run of runAllChecks as above, a day after the reports, with a store *)
(* that may raise at any await of an evaluator instead of answering.  Each evaluator holds its   *)
(* whole sweep in one try block, whose catch logs the Error.  Every        *)
(* awaited promise settles and the event loop runs the continuation that   *)
(* is ready: a step that stays enabled is taken.                           *)
(***************************************************************************)

\* The positions at which an evaluator awaits the store.
AwaitPositions ==
    { "findMany", "count", "findOne", "create", "write", "component", "log",
      "recalculate", "parent" }

\* The catch block left out: the promise of the evaluator is rejected.
catchSweepError_rethrows(c) == [pc |-> "rejected"]

\* The catch block of checkScheduledSlices, checkContinuousSlices and
\* applyCompositeDecay: the Error is logged and the promise resolves.
catchSweepError(c) == [pc |-> "done", caught |-> TRUE]

\* The store raises at the await evaluator p stands at.
EvaluatorFault(p) ==
    /\ calls[p].pc \in AwaitPositions
    /\ calls' = [calls EXCEPT ![p] = catchSweepError(calls[p])]
    /\ UNCHANGED << slices, updates, compositeVars, now, lastCall >>

\* The steps of a run in flight.
RunSteps ==
    \/ \E p \in Evaluators : EvaluatorFault(p)
    \/ RunAllChecksReturns
    \/ \E p \in PenaltyEvaluators : EvaluatorFindMany(p)
    \/ \E p \in PenaltyEvaluators : EvaluatorChecks(p)
    \/ \E p \in PenaltyEvaluators : EvaluatorCount(p)
    \/ \E p \in PenaltyEvaluators : EvaluatorFindOne(p)
    \/ \E p \in PenaltyEvaluators : EvaluatorCreate(p)
    \/ \E p \in PenaltyEvaluators : EvaluatorWrite(p)
    \/ DecayFindMany
    \/ DecayComponent
    \/ DecayLog
    \/ DecayRecalculate
    \/ DecayParent

NextFaulty ==
    \/ RunAllChecks
    \/ RunSteps

\* The run starts a day after nut and hyd were both reported at noon:
\* penalties and decay are due.
InitFaulty ==
    /\ \E st \in {r \in ReportedStores : Len(r.updates) = 2} :
          /\ slices = st.slices
          /\ updates = st.updates
          /\ components = st.components
          /\ componentUpdates = st.componentUpdates
    /\ now = Noon + MinutesPerDay
    /\ lastCall = NoCall
    /\ calls = [p \in Evaluators \cup {"runAllChecks"} |-> Idle]

SpecFaulty == InitFaulty /\ [][NextFaulty]_vars /\ WF_vars(RunSteps)

(* ------------------- two invocations of one evaluator ------------------ *)
(* The cron entry fires an evaluator while a manual run of the same        *)
(* evaluator (POST temporal/run, runAllChecks) is in flight, or the other  *)
(* way round.  Neither holds a lock: every await of one is a point where   *)
(* the other may run.  The store is one that reports of the day before    *)
(* (nut) and of 07:30 (hyd) left; the clock stands while a run is in      *)
(* flight.                                                                 *)
(***************************************************************************)

Invocations == {"cron", "manual"}

Morning == MinutesPerDay + 9 * 60 + 45

\* The stores the earlier reports leave: nut raised the day before or not,
\* hyd raised at 07:30 or not.
OverlapStores ==
    LET afterNut == {Seeded, updateBySteps(Seeded, Morning - MinutesPerDay,
                                           "nut", 2, FALSE)}
    IN  afterNut \cup
          {updateBySteps(st, Morning - Leap, "hyd", 2, FALSE) : st \in afterNut}

InitOverlap ==
    /\ \E st \in OverlapStores :
          /\ slices = st.slices
          /\ updates = st.updates
          /\ components = st.components
          /\ componentUpdates = st.componentUpdates
    /\ now = Morning
    /\ lastCall = NoCall
    /\ calls = [p \in Invocations |-> Idle]

\* The sweep of one evaluator, run without interruption at time t.
sweepOf(evaluator, st, t) ==
    IF evaluator = "scheduled" THEN checkScheduledSlices(st, t)
    ELSE checkContinuousSlices(st, t)

\* The invocation passes from the k-th slice of its loop to the next.
nextOf(c) ==
    IF c.k < Len(c.snapshots) THEN [c EXCEPT !.pc = "checks", !.k = c.k + 1]
    ELSE [c EXCEPT !.pc = "done"]

\* An invocation of an evaluator starts; base is the store the first of the
\* two found.  The second starts while the first is in flight, on the same
\* evaluator.
Invoke(p, evaluator) ==
    LET q == CHOOSE other \in Invocations : other # p
    IN  /\ calls[p].pc = "idle"
        /\ calls[q].pc \notin {"idle", "done"} => calls[q].evaluator = evaluator
        /\ calls[q].pc # "done"
        /\ Cardinality(AutomaticRows(updates)) < MaxPenalties
        /\ calls' = [calls EXCEPT ![p] =
              [ pc |-> "findMany", evaluator |-> evaluator,
                base |-> IF calls[q].pc = "idle" THEN Store ELSE calls[q].base,
                overlaps |-> calls[q].pc # "idle",
                t |-> now, k |-> 0, snapshots |-> << >>, steps |-> 0,
                plan |-> << >> ]]
        /\ lastCall' = [ op |-> "invoke", sliceId |-> "none", arg |-> evaluator,
                         outcome |-> "none", at |-> now ]
        /\ UNCHANGED << slices, updates, compositeVars, now >>

\* prisma.slice.findMany returns, const now = new Date().
InvocationFindMany(p) ==
    LET c == calls[p]
    IN  /\ c.pc = "findMany"
        /\ calls' = [calls EXCEPT ![p] =
              IF Len(EvaluatorSlices(c.evaluator)) = 0
                THEN [c EXCEPT !.pc = "done"]
              ELSE [c EXCEPT !.pc = "checks", !.k = 1,
                      !.snapshots =
                          [k \in 1..Len(EvaluatorSlices(c.evaluator)) |->
                              findManySnapshot(Store,
                                  EvaluatorSlices(c.evaluator)[k])]]]
        /\ UNCHANGED << slices, updates, compositeVars, now, lastCall >>

\* The evaluation of the k-th slice up to sliceUpdate.count.
InvocationChecks(p) ==
    LET c == calls[p]
    IN  /\ c.pc = "checks"
        /\ calls' = [calls EXCEPT ![p] =
              IF passesChecks(c.evaluator, c.snapshots[c.k], c.t)
                THEN [c EXCEPT !.pc = "count"]
              ELSE nextOf(c)]
        /\ UNCHANGED << slices, updates, compositeVars, now, lastCall >>

\* sliceUpdate.count returns; penaltiesToApply is decided.
InvocationCount(p) ==
    LET c     == calls[p]
        steps == stepsAfterCount(c.evaluator, updates, c.snapshots[c.k], c.t)
    IN  /\ c.pc = "count"
        /\ calls' = [calls EXCEPT ![p] =
              IF steps # 0 THEN [c EXCEPT !.pc = "findOne", !.steps = steps]
              ELSE nextOf(c)]
        /\ UNCHANGED << slices, updates, compositeVars, now, lastCall >>

\* applyAutomaticPenalty: updateBySteps reads the slice; an exception it
\* raises ends the sweep.
InvocationFindOne(p) ==
    LET c    == calls[p]
        id   == c.snapshots[c.k].id
        plan == planBySteps(id, slices[id], c.steps, TRUE)
    IN  /\ c.pc = "findOne"
        /\ calls' = [calls EXCEPT ![p] =
              IF plan.error = "none"
                THEN [c EXCEPT !.pc = "create", !.plan = plan]
              ELSE [c EXCEPT !.pc = "done"]]
        /\ UNCHANGED << slices, updates, compositeVars, now, lastCall >>

\* await this.prisma.sliceUpdate.create(...)
InvocationCreate(p) ==
    LET c == calls[p]
    IN  /\ c.pc = "create"
        /\ updates' = sliceUpdateCreate(Store, c.plan, now).updates
        /\ calls' = [calls EXCEPT ![p].pc = "write"]
        /\ UNCHANGED << slices, compositeVars, now, lastCall >>

\* await this.prisma.slice.update(...)
InvocationWrite(p) ==
    LET c == calls[p]
    IN  /\ c.pc = "write"
        /\ slices' = sliceUpdate(Store, c.plan).slices
        /\ calls' = [calls EXCEPT ![p] = nextOf(c)]
        /\ UNCHANGED << updates, compositeVars, now, lastCall >>

\* Both invocations have returned, or the only one has.
InvocationsReturn ==
    /\ \E p \in Invocations : calls[p].pc = "done"
    /\ \A p \in Invocations : calls[p].pc \in {"idle", "done"}
    /\ calls' = [p \in Invocations |-> Idle]
    /\ lastCall' = NoCall
    /\ UNCHANGED << slices, updates, compositeVars, now >>

\* The clock moves to the next firing of the cron entry while no
\* invocation is in flight.
NextFiring ==
    /\ \A p \in Invocations : calls[p].pc = "idle"
    /\ now + CronPeriod <= Morning + MaxTicks * CronPeriod
    /\ now' = now + CronPeriod
    /\ UNCHANGED << slices, updates, compositeVars, lastCall, calls >>

NextOverlap ==
    \/ \E p \in Invocations, evaluator \in PenaltyEvaluators :
          Invoke(p, evaluator)
    \/ \E p \in Invocations : InvocationFindMany(p)
    \/ \E p \in Invocations : InvocationChecks(p)
    \/ \E p \in Invocations : InvocationCount(p)
    \/ \E p \in Invocations : InvocationFindOne(p)
    \/ \E p \in Invocations : InvocationCreate(p)
    \/ \E p \in Invocations : InvocationWrite(p)
    \/ InvocationsReturn
    \/ NextFiring

SpecOverlap == InitOverlap /\ [][NextOverlap]_vars

(* ------------------------- both penalty sweeps ------------------------- *)
(* In the evening the user has raised the manual slice gym, the continuous *)
(* slice hyd, both or neither; the scheduled and the continuous evaluator  *)
(* sweep at any cron instant of the clock of the continuous evaluator, and *)
(* the user raises gym, zzz or hyd.                                        *)
(***************************************************************************)

\* The stores the reports of the evening leave.
EveningStores ==
    LET gymRaised == {Seeded, updateBySteps(Seeded, Evening, "gym", 2, FALSE)}
    IN  gymRaised \cup
            {updateBySteps(st, Evening, "hyd", 2, FALSE) : st \in gymRaised}

InitSweeps ==
    /\ \E st \in EveningStores :
          /\ slices = st.slices
          /\ updates = st.updates
          /\ components = st.components
          /\ componentUpdates = st.componentUpdates
    /\ now = Evening
    /\ lastCall = NoCall
    /\ calls = [p \in Procs |-> Idle]

SweepRequests == {"gym", "zzz", "hyd"} \X {2}

\* The model follows a sweep while the store holds at most MaxPenalties + 1
\* automatic rows: one for each of nut, zzz and hyd at the lowest bound.
SweepsFull(st) == Cardinality(AutomaticRows(st.updates)) > MaxPenalties + 1

SweepScheduledSlices ==
    \E st \in { checkScheduledSlices(Store, now) } :
        /\ ~SweepsFull(st)
        /\ Ran("checkScheduledSlices", "none",
               RunNumber("checkScheduledSlices"), "none", st)

SweepContinuousSlices ==
    \E st \in { checkContinuousSlices(Store, now) } :
        /\ ~SweepsFull(st)
        /\ Ran("checkContinuousSlices", "none",
               RunNumber("checkContinuousSlices"), "none", st)

NextSweeps ==
    \/ \E r \in SweepRequests : UpdateBySteps(r[1], r[2])
    \/ SweepScheduledSlices
    \/ SweepContinuousSlices
    \/ Elapse

SpecSweeps == InitSweeps /\ [][NextSweeps]_vars

(* ----------------------- penalties taken together ---------------------- *)
(* A slice the evaluators penalise stands at an index a report of the user *)
(* left it at; updateBySteps is called once with k times an amount, as the *)
(* evaluators call it for k periods due, and the k calls with the amount   *)
(* alone are run on the same store beside it.                              *)
(***************************************************************************)

PenalizedSlices == {"nut", "zzz", "hyd"}

\* The index the user's report raises the slice to.
StartIndexes == {0, 1, 2, 32, MAX_INDEX - 1, MAX_INDEX}

PenaltyAmounts == {-2, -1, 1}

\* Largest number of periods due.
MaxPeriods == 3

\* updateBySteps(steps, automatic = true) called k times in a row; refused
\* records that the store refused one of the calls.
RECURSIVE updateByStepsTimes(_, _, _, _, _)
updateByStepsTimes(st, t, id, steps, k) ==
    IF k = 0 THEN [st |-> st, refused |-> FALSE]
    ELSE LET rest == updateByStepsTimes(
                         updateBySteps(st, t, id, steps, TRUE), t, id, steps, k - 1)
         IN  [ st |-> rest.st,
               refused |-> \/ rest.refused
                           \/ planBySteps(id, st.slices[id], steps, TRUE).error
                                # "none" ]

InitAggregate ==
    /\ \E id \in PenalizedSlices, n \in StartIndexes :
          \E st \in { updateBySteps(Seeded, Noon, id, n, FALSE) } :
              /\ slices = st.slices
              /\ updates = st.updates
              /\ components = st.components
              /\ componentUpdates = st.componentUpdates
    /\ now = Noon
    /\ lastCall = NoCall
    /\ calls = [p \in Procs |-> Idle]

\* One call for k periods; the outcome keeps what the k calls leave.
UpdateByStepsAggregated(id, amount, k) ==
    /\ Len(updates) <= MaxUpdates
    /\ \E each \in { updateByStepsTimes(Store, now, id, amount, k) } :
          Ran("updateBySteps", id, [amount |-> amount, k |-> k],
              [slice |-> each.st.slices[id], refused |-> each.refused],
              updateBySteps(Store, now, id, k * amount, TRUE))

NextAggregate ==
    \E id \in PenalizedSlices, amount \in PenaltyAmounts, k \in 1..MaxPeriods :
        /\ latestUpdate(updates, id) # 0
        /\ UpdateByStepsAggregated(id, amount, k)

SpecAggregate == InitAggregate /\ [][NextAggregate]_vars

(* ------------------------- the formula service ------------------------- *)
(* calculateValue and findClosestIndex are called on configurations and    *)
(* arguments drawn from the tables below, and updateBySteps on odd, whose   *)
(* formulas throw; lastCall records each call and what it returned.         *)
(***************************************************************************)

\* Configurations: linear, exponential and sqrt ones, four that do not
\* increase with the index, three of which throw.
FormulaConfigs ==
    << [type |-> "linear", params |-> [offset |-> 0]],
       [type |-> "linear", params |-> [multiplier |-> 5]],
       [type |-> "linear", params |-> [multiplier |-> 1, offset |-> -3]],
       [type |-> "linear", params |-> [multiplier |-> -2, offset |-> 10]],
       [type |-> "exponential", params |-> [offset |-> 0]],
       [type |-> "exponential", params |-> [base |-> 3]],
       [type |-> "exponential", params |-> [base |-> 0]],
       [type |-> "exponential", params |-> [base |-> -2]],
       [type |-> "sqrt", params |-> [multiplier |-> 3, offset |-> 1]],
       [type |-> "cubic", params |-> [multiplier |-> 2]],
       [type |-> "sigmoid", params |-> [max |-> 101, kLn2 |-> 1]],
       [type |-> "sigmoid", params |-> [max |-> 101, kLn2 |-> -1]] >>

IndexInputs == {-3, 0, 1, 2, 4, 16, 31, MAX_INDEX}

TargetInputs == {-5, 0, 7}

\* The maxIndex a search runs under: MAX_INDEX as the update engine passes
\* it, for the configurations searched by bisection, and 20.
MaxIndexInputs(c) ==
    IF /\ isMonotonicIncreasing(FormulaConfigs[c])
       /\ FormulaConfigs[c].type # "sigmoid"
      THEN {20, MAX_INDEX}
    ELSE {20}

OddRequests == {"odd"} \X {2}

CalculateValue(c, index) ==
    \E outcome \in { calculateValueOutcome(FormulaConfigs[c], index) } :
        Ran("calculateValue", "none", [config |-> c, index |-> index],
            outcome, Store)

\* findClosestIndex on a target given as such (from is Null) or on the
\* value calculateValue returns at index from.
FindClosestIndex(c, targetValue, maxIndex, from) ==
    \E closestIndex \in
          { findClosestIndex(FormulaConfigs[c], targetValue, maxIndex) } :
        Ran("findClosestIndex", "none",
            [ config |-> c, targetValue |-> targetValue,
              maxIndex |-> maxIndex, from |-> from ],
            closestIndex, Store)

NextFormula ==
    \/ \E c \in 1..Len(FormulaConfigs), index \in IndexInputs :
          CalculateValue(c, index)
    \/ \E c \in 1..Len(FormulaConfigs), targetValue \in TargetInputs :
          \E maxIndex \in MaxIndexInputs(c) :
              FindClosestIndex(c, targetValue, maxIndex, Null)
    \/ \E c \in 1..Len(FormulaConfigs), n \in IndexInputs :
          \E maxIndex \in MaxIndexInputs(c) :
              /\ n >= 0 /\ n <= maxIndex
              /\ FindClosestIndex(c, calculateValue(FormulaConfigs[c], n),
                                  maxIndex, n)
    \/ \E r \in OddRequests : UpdateBySteps(r[1], r[2])

SpecFormula == InitComposite /\ [][NextFormula]_vars

(* ------------------------------ properties ---------------------------- *)

\* The store changed in this step.
StoreChanged == Store' # Store

\* This step is a run of handler op of the sequential specification that
\* changed the store.
Called(op) == lastCall'.op = op /\ StoreChanged

\* The rows of slice id that satisfy automatic = auto and are dated on the
\* calendar day of t.
RowsOfDay(id, auto, t) ==
    {i \in 1..Len(updates) :
        /\ updates[i].sliceId = id
        /\ updates[i].automatic = auto
        /\ isSameDay(updates[i].date, t)}

RECURSIVE SumDelta(_)
SumDelta(S) ==
    IF S = {} THEN 0
    ELSE LET i == CHOOSE x \in S : TRUE
         IN  updates[i].delta + SumDelta(S \ {i})

LastRow == updates[Len(updates)]

\* C1: a second run of the scheduled evaluator, immediately after a first
\* one and with the clock unchanged, writes no row and leaves every slice
\* unchanged, whatever the number of penalties due.
C1_SecondRunWritesNothing ==
    [][ ( /\ lastCall.op = "checkScheduledSlices"
          /\ lastCall.at = now
          /\ lastCall'.op = "checkScheduledSlices"
          /\ now' = now )
        => ~StoreChanged ]_vars

\* C2: right after a sweep of the scheduled evaluator, for a scheduled slice
\* without a user-initiated update today, the deltas of today's automatic
\* rows add up to penaltyAmount * floor(minutesLate / penaltyInterval).
C2_NoDoubleCharge ==
    \A k \in 1..Len(ScheduledSlices) :
        LET id == ScheduledSlices[k]
        IN  ( /\ lastCall.op = "checkScheduledSlices"
              /\ RowsOfDay(id, FALSE, lastCall.at) = {} )
            => SumDelta(RowsOfDay(id, TRUE, lastCall.at))
                 = Catalog[id].penaltyAmount * penaltiesDue(id, lastCall.at)

\* The latest row of slice id, when it has one, carries the index and the
\* value the slice holds.
LatestRowApplied(id) ==
    LET i == latestUpdate(updates, id)
    IN  i # 0 => /\ updates[i].indexAfter = slices[id].currentIndex
                 /\ updates[i].valueAfter = slices[id].currentValue

\* C3: the audit row and the slice mutation are one atomic unit: whenever no
\* call stands between its two writes, the latest row of every slice has
\* indexAfter = currentIndex and valueAfter = currentValue, also after a
\* call has failed or stopped.
C3_AuditAndMutationAtomic ==
    (\A p \in Procs : calls[p].pc # "write")
        => \A id \in SliceIds : LatestRowApplied(id)

\* C4: updates to one slice are serialized: when a call writes the slice,
\* the index and value it read (its row's indexBefore / valueBefore) are
\* the ones stored just before its mutation.
C4_UpdatesSerialized ==
    [][ \A p \in Procs :
          (calls[p].pc = "write" /\ calls'[p].pc = "idle")
            => /\ calls[p].plan.oldIndex = slices[calls[p].plan.sliceId].currentIndex
               /\ calls[p].plan.oldValue = slices[calls[p].plan.sliceId].currentValue
      ]_vars

\* C5: a sweep racing a user update writes no automatic penalty for a slice
\* whose latest update, at the time the penalty row is written, is a
\* committed user-initiated one of the same day.
C5_TickSeesUserUpdate ==
    [][ ( /\ calls["tick"].pc = "create"
          /\ calls'["tick"].pc = "write"
          /\ \A u \in Users : calls[u].pc = "idle" )
        => ~hasReportedToday(
               findManySnapshot(Store, calls["tick"].plan.sliceId), now)
      ]_vars

\* The stored value is what one of the slice's two formulas yields at the
\* stored index.
ValueMatchesFormula(id) ==
    \/ slices[id].currentValue
         = calculateValue(Catalog[id].increase, slices[id].currentIndex)
    \/ slices[id].currentValue
         = calculateValue(Catalog[id].decrease, slices[id].currentIndex)

\* C6: for every non-composite slice, in every reachable state, currentValue
\* equals floor(formula(currentIndex)) under its increase or its decrease
\* configuration.
C6_ValueDerivedFromIndex ==
    \A id \in SliceIds : ~Catalog[id].isComposite => ValueMatchesFormula(id)

\* C7: 0 <= currentIndex <= MAX_INDEX for every slice, after any sequence
\* of step, percentage and absolute updates, automatic penalties and daily
\* resets.
C7_IndexInRange ==
    \A id \in SliceIds :
        slices[id].currentIndex >= 0 /\ slices[id].currentIndex <= MAX_INDEX

\* A step update that ran past MAX_INDEX and was clamped to it.
C7_Witness ==
    /\ Len(updates) > 0
    /\ LastRow.deltaType = "steps"
    /\ LastRow.indexBefore + LastRow.delta > MAX_INDEX
    /\ slices[LastRow.sliceId].currentIndex = MAX_INDEX

\* The step appended exactly one row, with these fields, and set slice id
\* to newIndex / newValue, leaving the other slices alone.
Wrote(id, delta, deltaType, automatic, newIndex, newValue) ==
    /\ updates' = Append(updates,
          [ sliceId |-> id, delta |-> delta, deltaType |-> deltaType,
            valueBefore |-> slices[id].currentValue, valueAfter |-> newValue,
            indexBefore |-> slices[id].currentIndex, indexAfter |-> newIndex,
            date |-> now, automatic |-> automatic ])
    /\ slices' = [slices EXCEPT ![id] =
          [currentIndex |-> newIndex, currentValue |-> newValue]]

Clamp(i) == IF i < 0 THEN 0 ELSE IF i > MAX_INDEX THEN MAX_INDEX ELSE i

\* The positions of the rows this step appended.
NewRows == (Len(updates) + 1)..Len(updates')

\* The step is a sweep's: it appended at most one row per slice, each an
\* automatic step row that carries the slice's old state and the state the
\* step contract yields for its delta, and set each such slice to that new
\* state, leaving the other slices alone.
SweepWrote ==
    /\ SubSeq(updates', 1, Len(updates)) = updates
    /\ \A k \in NewRows :
          LET r      == updates'[k]
              id     == r.sliceId
              newIdx == Clamp(slices[id].currentIndex + r.delta)
              cfg    == IF r.delta >= 0 THEN Catalog[id].increase
                                       ELSE Catalog[id].decrease
          IN  /\ r = [ sliceId |-> id, delta |-> r.delta, deltaType |-> "steps",
                       valueBefore |-> slices[id].currentValue,
                       valueAfter |-> calculateValue(cfg, newIdx),
                       indexBefore |-> slices[id].currentIndex,
                       indexAfter |-> newIdx,
                       date |-> now, automatic |-> TRUE ]
              /\ slices'[id] = [ currentIndex |-> newIdx,
                                 currentValue |-> calculateValue(cfg, newIdx) ]
              /\ \A j \in NewRows : updates'[j].sliceId = id => j = k
    /\ \A id \in SliceIds :
          (\A k \in NewRows : updates'[k].sliceId # id)
              => slices'[id] = slices[id]

\* C8: updateBySteps(id, steps) sets currentIndex to
\* clamp(oldIndex + steps, 0, MAX_INDEX) and currentValue to the value of
\* the increase formula (steps >= 0) or the decrease formula (steps < 0) at
\* that index, and creates exactly one row: deltaType 'steps', delta =
\* steps, the old and the new state, the given automatic flag.
C8_UpdateBySteps ==
    [][ /\ Called("updateBySteps") =>
            LET id     == lastCall'.sliceId
                steps  == lastCall'.arg
                newIdx == Clamp(slices[id].currentIndex + steps)
                cfg    == IF steps >= 0 THEN Catalog[id].increase
                                        ELSE Catalog[id].decrease
            IN  Wrote(id, steps, "steps", FALSE, newIdx, calculateValue(cfg, newIdx))
        /\ Called("checkScheduledSlices") => SweepWrote
      ]_vars

\* A step down from index 2 to index 1, valued by the decrease formula.
C8_Witness ==
    /\ lastCall.op = "updateBySteps"
    /\ lastCall.arg = -1
    /\ Len(updates) > 0
    /\ LastRow.deltaType = "steps"
    /\ LastRow.indexBefore = 2
    /\ LastRow.indexAfter = 1
    /\ slices[LastRow.sliceId].currentIndex = 1

C10_UpdateToValue ==
    [][ Called("updateToValue") =>
            LET id     == lastCall'.sliceId
                v      == lastCall'.arg
                cfg    == IF v >= slices[id].currentValue
                            THEN Catalog[id].increase
                          ELSE Catalog[id].decrease
                newIdx == findClosestIndex(cfg, v, MAX_INDEX)
            IN  /\ v >= 0
                /\ Wrote(id, v, "absolute", FALSE, newIdx,
                         calculateValue(cfg, newIdx))
      ]_vars

\* A set to 5 from a larger value, which lands on the decrease formula.
C10_Witness ==
    /\ lastCall.op = "updateToValue"
    /\ lastCall.arg = 5
    /\ Len(updates) > 0
    /\ LastRow.deltaType = "absolute"
    /\ LastRow.valueBefore > 5
    /\ LastRow.valueAfter = calculateValue(Catalog[LastRow.sliceId].decrease,
                                           LastRow.indexAfter)
    /\ LastRow.valueAfter # calculateValue(Catalog[LastRow.sliceId].increase,
                                           LastRow.indexAfter)
    /\ slices[LastRow.sliceId].currentValue = LastRow.valueAfter

\* C11: a call of the update engine that is refused leaves the store
\* unchanged, with no SliceUpdate row created and no slice row modified:
\* on an id no slice carries it ends with a not-found error, on a composite
\* slice with a validation error, and updateToValue with a negative value
\* ends with a validation error.
C11_RefusedCallsChangeNothing ==
    [][ LET c == lastCall'
        IN  c.op \in {"updateBySteps", "updateByPercentage", "updateToValue"} =>
              /\ c.sliceId \notin SliceIds => c.outcome = "notFound"
              /\ (c.sliceId \in SliceIds /\ Catalog[c.sliceId].isComposite)
                    => c.outcome = "validation"
              /\ (c.sliceId \in SliceIds /\ c.op = "updateToValue" /\ c.arg < 0)
                    => c.outcome = "validation"
              /\ c.outcome # "none" => ~StoreChanged
      ]_vars

\* A step request on the composite slice was refused while the store held
\* rows of earlier updates.
C11_Witness ==
    /\ lastCall.op = "updateBySteps"
    /\ lastCall.sliceId = "hyg"
    /\ lastCall.outcome = "validation"
    /\ Len(updates) > 0
    /\ slices["hyg"] = [currentIndex |-> 0, currentValue |-> 0]

\* This step is a sweep of the scheduled evaluator.
ScheduledSweep == lastCall'.op = "checkScheduledSlices" /\ now' = now

\* The rows of slice id this step appended.
NewRowsOf(id) == {k \in NewRows : updates'[k].sliceId = id}

\* The latest row of slice id is a user-initiated one of the day of t.
ReportedOn(id, t) ==
    LET i == latestUpdate(updates, id)
    IN  i # 0 /\ ~updates[i].automatic
              /\ updates[i].date \div MinutesPerDay = t \div MinutesPerDay

\* Minutes past expectedTime + gracePeriod of the day of t (negative before).
MinutesLate(id, t) ==
    t - ((t \div MinutesPerDay) * MinutesPerDay
            + Catalog[id].expectedTime + Catalog[id].gracePeriod)

\* The penalties the scheduled evaluator finds left to apply to slice id.
ToApply(id, t) ==
    IF ReportedOn(id, t) \/ MinutesLate(id, t) <= 0 THEN 0
    ELSE Max(0, MinutesLate(id, t) \div Catalog[id].penaltyInterval
                  - Cardinality(RowsOfDay(id, TRUE, t)))

\* The value the step contract yields for a penalty of delta steps on id.
PenaltyValue(id, delta) ==
    calculateValue(IF delta >= 0 THEN Catalog[id].increase
                                 ELSE Catalog[id].decrease,
                   Clamp(slices[id].currentIndex + delta))

\* C14: a sweep of the scheduled evaluator that finds penaltiesToApply > 0
\* for a slice writes exactly one row for it, with the aggregate delta
\* penaltiesToApply * penaltyAmount, automatic = true and the date of the
\* tick (as long as every call of the sweep up to this slice is served);
\* for nut at 10:00 with no row yet that is minutesLate 30, two penalties
\* due and a single row with delta -2.
C14_OneAggregateRow ==
    [][ ScheduledSweep =>
          \A k \in 1..Len(ScheduledSlices) :
            LET id == ScheduledSlices[k]
            IN  ( /\ ToApply(id, now) > 0
                  /\ \A j \in 1..k :
                        LET s == ScheduledSlices[j]
                        IN  Storable(PenaltyValue(s,
                              ToApply(s, now) * Catalog[s].penaltyAmount)) )
                => /\ Cardinality(NewRowsOf(id)) = 1
                   /\ \A n \in NewRowsOf(id) :
                        /\ updates'[n].delta
                             = ToApply(id, now) * Catalog[id].penaltyAmount
                        /\ updates'[n].automatic
                        /\ updates'[n].deltaType = "steps"
                        /\ updates'[n].date = now
                        /\ (id = "nut" /\ now = 10 * 60 /\ updates = << >>)
                              => ( MinutesLate(id, now) = 30
                                   /\ updates'[n].delta = -2 )
      ]_vars

\* The sweep of 10:00 found nut without any row and wrote the single
\* aggregate row of two penalties.
C14_Witness ==
    /\ lastCall.op = "checkScheduledSlices"
    /\ lastCall.at = 10 * 60
    /\ Len(updates) = 1
    /\ LastRow.sliceId = "nut"
    /\ LastRow.automatic
    /\ LastRow.delta = -2
    /\ LastRow.date = 10 * 60

\* C15: a sweep of the scheduled evaluator writes nothing for a scheduled
\* slice whose latest row is user-initiated and of the day of the tick,
\* however late the tick; hence, with handlers run one after another, no
\* automatic row of a scheduled slice follows a user-initiated row of the
\* same slice and the same day.
C15_ReportedSliceUntouched ==
    [][ /\ ScheduledSweep =>
            \A k \in 1..Len(ScheduledSlices) :
              LET id == ScheduledSlices[k]
              IN  ReportedOn(id, now)
                    => NewRowsOf(id) = {} /\ slices'[id] = slices[id]
        /\ \A i, j \in 1..Len(updates') :
              LET a == updates'[i]
                  b == updates'[j]
              IN  ~( /\ i < j
                     /\ a.sliceId = b.sliceId
                     /\ Catalog[a.sliceId].temporalType = "scheduled"
                     /\ ~a.automatic
                     /\ b.automatic
                     /\ a.date \div MinutesPerDay = b.date \div MinutesPerDay )
      ]_vars

\* A sweep ran half an hour or more past the deadline of nut, after the
\* user had reported at 09:45, and wrote no penalty.
C15_Witness ==
    /\ lastCall.op = "checkScheduledSlices"
    /\ lastCall.at = 10 * 60
    /\ Len(updates) = 1
    /\ LastRow.sliceId = "nut"
    /\ ~LastRow.automatic
    /\ LastRow.date = 9 * 60 + 45
    /\ slices["nut"].currentIndex = LastRow.indexAfter

\* C12: in a sweep, a slice whose evaluation raises an error does not keep
\* the remaining slices from being evaluated in the same tick: every
\* scheduled slice with penalties to apply, whose own updateBySteps call
\* is served, gets its row in the sweep.
C12_SweepSurvivesFaults ==
    [][ ScheduledSweep =>
          \A k \in 1..Len(ScheduledSlices) :
            LET id == ScheduledSlices[k]
            IN  ( /\ ToApply(id, now) > 0
                  /\ Storable(PenaltyValue(id,
                        ToApply(id, now) * Catalog[id].penaltyAmount)) )
                => NewRowsOf(id) # {}
      ]_vars

\* This step is a sweep of the continuous evaluator.
ContinuousSweep == lastCall'.op = "checkContinuousSlices" /\ now' = now

\* Minutes since the latest row of slice id (of any kind), at time t.
SinceUpdate(id, t) == t - updates[latestUpdate(updates, id)].date

\* C16: a sweep of the continuous evaluator writes nothing for a continuous
\* slice that has no row, or whose latest row is at most maxInterval
\* minutes old, or is less than maxInterval + penaltyInterval minutes old:
\* a penalty is written only when minutesSinceUpdate - maxInterval >=
\* penaltyInterval.
C16_NoPenaltyWithinAllowance ==
    [][ ContinuousSweep =>
          \A k \in 1..Len(ContinuousSlices) :
            LET id == ContinuousSlices[k]
            IN  ( \/ latestUpdate(updates, id) = 0
                  \/ SinceUpdate(id, now) <= Catalog[id].maxInterval
                  \/ SinceUpdate(id, now) - Catalog[id].maxInterval
                        < Catalog[id].penaltyInterval )
                => NewRowsOf(id) = {} /\ slices'[id] = slices[id]
      ]_vars

\* A sweep ran 135 minutes after the user's report on hyd, past the
\* allowance but short of a penalty interval, and wrote nothing.
C16_Witness ==
    /\ lastCall.op = "checkContinuousSlices"
    /\ lastCall.at = now
    /\ Len(updates) = 1
    /\ LastRow.sliceId = "hyd"
    /\ now - LastRow.date = 135
    /\ slices["hyd"].currentIndex = LastRow.indexAfter

\* C17: a sweep of the continuous evaluator writes at most one automatic
\* row per slice, and a second sweep that follows a first one at once, with
\* the clock unchanged and no update in between, leaves rows, currentIndex
\* and currentValue unchanged.
C17_ContinuousIdempotent ==
    [][ ContinuousSweep =>
          /\ \A k \in 1..Len(ContinuousSlices) :
                Cardinality(NewRowsOf(ContinuousSlices[k])) <= 1
          /\ (lastCall.op = "checkContinuousSlices" /\ lastCall.at = now)
                => ~StoreChanged
      ]_vars

\* A second sweep ran at once after a first one that had written the
\* aggregate row of two penalties, and added nothing.
C17_Witness ==
    /\ lastCall.op = "checkContinuousSlices"
    /\ lastCall.arg = 2
    /\ lastCall.at = now
    /\ Len(updates) = 2
    /\ LastRow.sliceId = "hyd"
    /\ LastRow.automatic
    /\ LastRow.delta = -2
    /\ LastRow.date = now

(* C18: in every state reached by updateComponent, updateMultipleComponents *)
(* and decay ticks, the value of every component lies between 0 and its    *)
(* maxValue; decay never drives a component below 0.                       *)
C18_ComponentInRange ==
    \A key \in DOMAIN components :
        /\ components[key].currentValue >= 0
        /\ components[key].currentValue <= components[key].maxValue

\* A decay tick has just cut a component to 0 although the decay due
\* exceeded the value it held.
C18_Witness ==
    /\ lastCall.op = "applyCompositeDecay"
    /\ \E i \in 1..Len(componentUpdates) :
          /\ componentUpdates[i].notes = "decay"
          /\ componentUpdates[i].date = lastCall.at
          /\ componentUpdates[i].valueAfter = 0
          /\ componentUpdates[i].valueBefore > 0
          /\ componentUpdates[i].valueBefore
                < (components[componentUpdates[i].componentKey].decayRate
                   * (now - components[componentUpdates[i].componentKey].lastChecked))
                  \div PeriodMinutes(components[componentUpdates[i].componentKey].decayType)

\* No decay is due to a component at time t: it was never checked, less
\* than one period has passed since it was, the decay of the periods passed
\* amounts to less than one unit, or it is at 0 already.
Unmoved(key, t) ==
    LET component == components[key]
    IN  \/ component.lastChecked = Null
        \/ t - component.lastChecked < PeriodMinutes(component.decayType)
        \/ (component.decayRate * (t - component.lastChecked))
              \div PeriodMinutes(component.decayType) = 0
        \/ component.currentValue = 0

DecaySweep == lastCall'.op = "applyCompositeDecay" /\ lastCall' # lastCall

(* C19: a decay tick in which no decay is due to any component of a        *)
(* composite slice leaves the value of that slice and all its components   *)
(* as they were and creates no SliceComponentUpdate row.                   *)
C19_IdleDecayWritesNothing ==
    [][ \A id \in SliceIds :
          ( /\ DecaySweep
            /\ Catalog[id].isComposite
            /\ \A key \in DOMAIN components :
                  components[key].sliceId = id => Unmoved(key, now) )
          => /\ slices'[id] = slices[id]
             /\ \A key \in DOMAIN components :
                   components[key].sliceId = id
                      => components'[key] = components[key]
             /\ \A i \in 1..Len(componentUpdates') :
                   i > Len(componentUpdates)
                      => components[componentUpdates'[i].componentKey].sliceId # id
      ]_vars

\* A decay tick has just run half a day after a component was checked off
\* at a positive value, and wrote nothing.
C19_Witness ==
    /\ lastCall.op = "applyCompositeDecay"
    /\ lastCall.at = now
    /\ \E key \in DOMAIN components :
          /\ components[key].lastChecked = now - HalfDay
          /\ components[key].currentValue > 0
    /\ \A key \in DOMAIN components :
          components[key].lastChecked # Null
             => now - components[key].lastChecked < PeriodMinutes(components[key].decayType)
    /\ \A i \in 1..Len(componentUpdates) : componentUpdates[i].notes # "decay"

\* The decayed value of a component at time t, in 10080ths (the minutes of
\* a week, which the minutes of every period divide), in exact arithmetic.
DecayedExact(component, t) ==
    IF component.lastChecked = Null THEN 0
    ELSE Max(0, component.currentValue * 10080
                  - (t - component.lastChecked) * component.decayRate
                      * (10080 \div PeriodMinutes(component.decayType)))

RECURSIVE SumExact(_, _, _)
SumExact(keys, k, t) ==
    IF k > Len(keys) THEN 0
    ELSE DecayedExact(components[keys[k]], t) * components[keys[k]].weight
           + SumExact(keys, k + 1, t)

RECURSIVE SumWeight(_, _)
SumWeight(keys, k) ==
    IF k > Len(keys) THEN 0
    ELSE components[keys[k]].weight + SumWeight(keys, k + 1)

\* floor(sum(decayed_i * weight_i) / sum(weight_i)) of the components of a
\* slice at time t; 0 without components or without weight.
CompositeExact(id, t) ==
    LET keys == componentKeysOf(Store, id)
    IN  IF Len(keys) = 0 \/ SumWeight(keys, 1) = 0 THEN 0
        ELSE SumExact(keys, 1, t) \div (10080 * SumWeight(keys, 1))

(* C20: the value calculateCompositeValue returns for a composite slice    *)
(* is floor(sum(decayed_i * weight_i) / sum(weight_i)), with decayed_i =   *)
(* max(0, currentValue_i - periods_i * decayRate_i), 0 for a component     *)
(* never checked, and 0 without weight or components; so components all   *)
(* at 100 with no decay elapsed give 100 whatever their positive weights.  *)
C20_CompositeValueExact ==
    [][ lastCall'.op = "recalculateAllCompositeSlices" /\ lastCall' # lastCall
          => \A id \in SliceIds :
                Catalog[id].isComposite
                   => slices'[id].currentValue = CompositeExact(id, now) ]_vars

\* The SliceUpdate rows of slice id, in creation order.
rowsOf(rows, id) == SelectSeq(rows, LAMBDA row : row.sliceId = id)

\* Two stores hold the same rows: the rows of one table carry no order
\* beyond the one of their creation per slice.
SameRows(a, b) ==
    /\ a.slices = b.slices
    /\ a.components = b.components
    /\ a.componentUpdates = b.componentUpdates
    /\ \A id \in SliceIds : rowsOf(a.updates, id) = rowsOf(b.updates, id)

\* C13: when runAllChecks returns, whatever the order in which the awaits
\* of the three evaluators were served, the store holds the rows that
\* checkScheduledSlices, checkContinuousSlices and applyCompositeDecay leave
\* when run one after another at the same time from the same store.
C13_RunAllChecksAsSequential ==
    calls["runAllChecks"].pc = "done" =>
        SameRows(Store, runSequentially(calls["runAllChecks"].base, now))

\* A run returned in which the three evaluators wrote, and the continuous
\* evaluator created its row before the scheduled one, whose sweep comes
\* first when they run one after another.
C13_Witness ==
    /\ calls["runAllChecks"].pc = "done"
    /\ \E i, j \in 1..Len(updates) :
          /\ i < j
          /\ updates[i].sliceId = "hyd" /\ updates[i].automatic
          /\ updates[j].sliceId = "nut" /\ updates[j].automatic
    /\ \E i \in 1..Len(componentUpdates) :
          /\ componentUpdates[i].notes = "decay"
          /\ componentUpdates[i].date = now

\* This step is a call of updateComponent.
ComponentCall == lastCall'.op = "updateComponent" /\ now' = now

\* The SliceComponentUpdate row of a user's check of component key.
CheckRow(key, valueAfter) ==
    [ componentKey |-> key, valueBefore |-> components[key].currentValue,
      valueAfter |-> valueAfter, notes |-> "none", date |-> now ]

(* C21: a call updateComponent(sliceId, key, value?) on a composite slice   *)
(* that holds the key, with a value between 0 and maxValue (maxValue when   *)
(* omitted), sets the component to the value and its lastChecked to now,    *)
(* creates exactly one SliceComponentUpdate row (old value, new value) and  *)
(* stores the recomputed composite value in the parent slice; any other     *)
(* call is refused and changes nothing.                                     *)
C21_UpdateComponent ==
    [][ ComponentCall =>
          LET id       == lastCall'.sliceId
              key      == lastCall'.arg[1]
              hasValue == lastCall'.arg[2]
              value    == lastCall'.arg[3]
              known    == /\ id \in SliceIds
                          /\ Catalog[id].isComposite
                          /\ key \in DOMAIN components
                          /\ components[key].sliceId = id
              newValue == IF hasValue THEN value ELSE components[key].maxValue
          IN  IF known /\ newValue >= 0 /\ newValue <= components[key].maxValue
                THEN /\ lastCall'.outcome = "none"
                     /\ components' =
                           [components EXCEPT ![key].currentValue = newValue,
                                              ![key].lastChecked = now]
                     /\ componentUpdates' =
                           Append(componentUpdates, CheckRow(key, newValue))
                     /\ slices' =
                           [slices EXCEPT ![id].currentValue =
                               calculateCompositeValue(Store', id, now)]
                     /\ updates' = updates
              ELSE /\ lastCall'.outcome # "none"
                   /\ ~StoreChanged
      ]_vars

\* teeth was checked off without a value a day after shower was: it stands
\* at its maxValue, checked now, the row records the value it had decayed
\* to, and hyg holds a positive value.
C21_Witness ==
    /\ lastCall.op = "updateComponent"
    /\ lastCall.arg = << "teeth", FALSE, 0 >>
    /\ lastCall.at = now
    /\ components["teeth"].currentValue = components["teeth"].maxValue
    /\ components["teeth"].lastChecked = now
    /\ components["shower"].lastChecked = now - 2 * HalfDay
    /\ Len(componentUpdates) > 1
    /\ componentUpdates[Len(componentUpdates)].componentKey = "teeth"
    /\ componentUpdates[Len(componentUpdates)].valueAfter = 100
    /\ slices["hyg"].currentValue > 0

\* This step is a call of updateMultipleComponents.
MultipleCall == lastCall'.op = "updateMultipleComponents" /\ now' = now

\* The positions of a log that hold a call of this name for this key.
WritesOf(log, call, key) ==
    {i \in 1..Len(log) : log[i].call = call /\ log[i].key = key}

(* C22: updateMultipleComponents(sliceId, keys) on a composite slice sets   *)
(* every component whose key the slice holds to its maxValue with           *)
(* lastChecked = now and one SliceComponentUpdate row each, passes over     *)
(* every other key without an error and without a write for it, and makes   *)
(* one parent-slice write, the last of its writes, with the composite       *)
(* value recomputed after the component writes, whatever the keys.          *)
C22_UpdateMultipleComponents ==
    [][ (MultipleCall /\ Catalog[lastCall'.sliceId].isComposite) =>
          LET id    == lastCall'.sliceId
              keys  == lastCall'.arg
              held(key) == /\ key \in DOMAIN components
                           /\ components[key].sliceId = id
              heldKeys == SelectSeq(keys, held)
          IN  \A log \in { writesOfMultiple(Store, now, id, keys) } :
              /\ lastCall'.outcome = "none"
              /\ DOMAIN components' = DOMAIN components
              /\ \A key \in DOMAIN components :
                    components'[key] =
                      IF \E k \in 1..Len(heldKeys) : heldKeys[k] = key
                        THEN [ components[key] EXCEPT
                                 !.currentValue = components[key].maxValue,
                                 !.lastChecked = now ]
                      ELSE components[key]
              /\ componentUpdates' = componentUpdates \o
                    [ k \in 1..Len(heldKeys) |->
                        CheckRow(heldKeys[k], components[heldKeys[k]].maxValue) ]
              /\ slices' = [ slices EXCEPT ![id].currentValue =
                               calculateCompositeValue(Store', id, now) ]
              /\ updates' = updates
              /\ Store' = applyWrites(Store, log, 1, now)
              /\ Cardinality(WritesOf(log, "slice.update", id)) = 1
              /\ log[Len(log)].call = "slice.update"
              /\ \A k \in 1..Len(keys) :
                    IF held(keys[k])
                      THEN /\ Cardinality(WritesOf(log,
                                 "sliceComponentUpdate.create", keys[k])) = 1
                           /\ Cardinality(WritesOf(log,
                                 "sliceComponent.update", keys[k])) = 1
                    ELSE \A i \in 1..Len(log) : log[i].key # keys[k]
      ]_vars

\* shower, ghost and teeth were checked off in one call a day after shower
\* had been checked alone: shower and teeth stand at their maxValue,
\* checked now, with one row each, in the order of the keys.
C22_Witness ==
    /\ lastCall.op = "updateMultipleComponents"
    /\ lastCall.arg = << "shower", "ghost", "teeth" >>
    /\ lastCall.at = now
    /\ Len(componentUpdates) = 3
    /\ componentUpdates[1].componentKey = "shower"
    /\ componentUpdates[1].date = now - 2 * HalfDay
    /\ componentUpdates[2].componentKey = "shower"
    /\ componentUpdates[2].date = now
    /\ componentUpdates[3].componentKey = "teeth"
    /\ componentUpdates[3].date = now
    /\ \A key \in {"shower", "teeth"} :
          /\ components[key].currentValue = components[key].maxValue
          /\ components[key].lastChecked = now
    /\ slices["hyg"].currentValue > 0

\* This step is a run of the daily reset.
DailyReset == lastCall'.op = "resetDailySlices" /\ now' = now

(* C23: the daily reset sets currentIndex and currentValue to 0 on every    *)
(* slice flagged resetDaily whose own write is served, whatever its        *)
(* formula and whichever other writes fail, leaves every other slice as it *)
(* was and creates no row; without a failure it equals the plain reset.    *)
C23_DailyReset ==
    [][ DailyReset =>
          LET faults == lastCall'.arg
          IN  /\ \A id \in SliceIds :
                    slices'[id] =
                      IF Catalog[id].resetDaily /\ id \notin faults
                        THEN [currentIndex |-> 0, currentValue |-> 0]
                      ELSE slices[id]
              /\ updates' = updates
              /\ compositeVars' = compositeVars
              /\ faults = {} => Store' = resetDailySlices(Store)
      ]_vars

\* The reset ran while the write of nut, the first slice of the loop,
\* failed: nut stands where the user had raised it, and zzz, which the
\* user had raised too, is back at 0.
C23_Witness ==
    /\ lastCall.op = "resetDailySlices"
    /\ lastCall.arg = {"nut"}
    /\ slices["nut"].currentIndex = 2
    /\ slices["nut"].currentValue > 0
    /\ slices["zzz"] = [currentIndex |-> 0, currentValue |-> 0]
    /\ \E i \in 1..Len(updates) :
          /\ updates[i].sliceId = "zzz"
          /\ updates[i].indexAfter = 2
          /\ updates[i].valueAfter > 0

(* C24: history is append-only: every SliceUpdate row and every            *)
(* SliceComponentUpdate row a state holds is still held, as it was, after  *)
(* any operation of the slice services, the removal of a slice included.   *)
C24_HistoryAppendOnly ==
    [][ /\ \A i \in 1..Len(updates) :
              \E j \in 1..Len(updates') : updates'[j] = updates[i]
        /\ \A i \in 1..Len(componentUpdates) :
              \E j \in 1..Len(componentUpdates') :
                  componentUpdates'[j] = componentUpdates[i]
      ]_vars

\* The configuration of a recorded call of the formula service.
ConfigOf(call) == FormulaConfigs[call.arg.config]

\* The configuration makes the switch of calculateValue throw: its type is
\* not one of the five, or it is exponential with a base <= 0.
Faulty(config) ==
    \/ config.type \notin
          {"linear", "exponential", "sqrt", "logarithmic", "sigmoid"}
    \/ /\ config.type = "exponential"
       /\ "base" \in DOMAIN config.params
       /\ config.params.base <= 0

(* C25: calculateValue returns a number for every configuration and every  *)
(* index and lets no error through: 0 for an unknown type and for an       *)
(* exponential base <= 0; findClosestIndex on such a configuration returns *)
(* an index, and updateBySteps on a slice with such formulas is served and *)
(* records the value 0.                                                    *)
C25_CalculateValueNeverThrows ==
    /\ lastCall.op = "calculateValue" =>
          /\ ~lastCall.outcome.threw
          /\ lastCall.outcome.value \in Int
          /\ Faulty(ConfigOf(lastCall)) => lastCall.outcome.value = 0
    /\ lastCall.op = "findClosestIndex" =>
          lastCall.outcome \in 0..lastCall.arg.maxIndex
    /\ (lastCall.op = "updateBySteps" /\ lastCall.sliceId = "odd") =>
          /\ lastCall.outcome = "none"
          /\ LastRow.sliceId = "odd"
          /\ LastRow.valueAfter = 0
          /\ LastRow.indexAfter = slices["odd"].currentIndex
          /\ slices["odd"].currentValue = 0

\* calculateValue has returned 0 for the unknown type at index 4, after
\* updateBySteps had taken odd to index 2.
C25_Witness ==
    /\ lastCall.op = "calculateValue"
    /\ ConfigOf(lastCall).type = "cubic"
    /\ lastCall.arg.index = 4
    /\ lastCall.outcome = [threw |-> FALSE, value |-> 0]
    /\ slices["odd"].currentIndex = 2
    /\ Len(updates) = 1

(* C26: findClosestIndex(config, target, maxIndex) returns 0 whenever      *)
(* target <= 0, for every configuration, also one whose value at another   *)
(* index is the target: the formula is not consulted.                      *)
C26_ClosestIndexOfZero ==
    (lastCall.op = "findClosestIndex" /\ lastCall.arg.targetValue <= 0)
        => lastCall.outcome = 0

\* findClosestIndex has returned 0 for the target 0 on the linear sequence
\* n - 3, whose value is 0 at index 3 and -3 at index 0.
C26_Witness ==
    /\ lastCall.op = "findClosestIndex"
    /\ lastCall.arg.targetValue = 0
    /\ lastCall.arg.maxIndex = MAX_INDEX
    /\ ConfigOf(lastCall).type = "linear"
    /\ calculateValue(ConfigOf(lastCall), 3) = 0
    /\ calculateValue(ConfigOf(lastCall), 0) = -3
    /\ lastCall.outcome = 0

\* The values of the configuration do not decrease over the first indices.
Monotonic(config) ==
    \A i \in 0..31 : calculateValue(config, i) <= calculateValue(config, i + 1)

(* C27: for a monotonic configuration and an index n of 0..maxIndex whose  *)
(* value v = calculateValue(config, n) is positive,                        *)
(* findClosestIndex(config, v, maxIndex) returns an index whose value is   *)
(* v; linear multiplier 5 at the value 10 gives 2, exponential base 2 at   *)
(* the value 16 gives 4.                                                   *)
C27_ValueIndexRoundTrip ==
    ( /\ lastCall.op = "findClosestIndex"
      /\ lastCall.arg.from # Null
      /\ lastCall.arg.targetValue > 0
      /\ Monotonic(ConfigOf(lastCall)) )
    => /\ calculateValue(ConfigOf(lastCall), lastCall.outcome)
            = lastCall.arg.targetValue
       /\ lastCall.outcome \in 0..lastCall.arg.maxIndex
       /\ ( /\ ConfigOf(lastCall) = FormulaConfigs[2]
            /\ lastCall.arg.targetValue = 10 ) => lastCall.outcome = 2
       /\ ( /\ ConfigOf(lastCall) = FormulaConfigs[5]
            /\ lastCall.arg.targetValue = 16 ) => lastCall.outcome = 4

\* The value of the linear sequence 5n at index 10000 was searched among
\* the indices up to 10000, and index 10000 was returned.
C27_Witness ==
    /\ lastCall.op = "findClosestIndex"
    /\ lastCall.arg.from = MAX_INDEX
    /\ lastCall.arg.maxIndex = MAX_INDEX
    /\ lastCall.arg.targetValue = 5 * MAX_INDEX
    /\ lastCall.outcome = MAX_INDEX

\* This step is a tick of the composite-decay scheduler.
DecayTick == lastCall'.op = "applyCompositeDecay" /\ now' = now

\* floor(periodsElapsed * decayRate) over the rationals, for a checked
\* component of a decaying type.
DecayAmountAt(component, t) ==
    ((t - component.lastChecked) * component.decayRate)
        \div PeriodMinutes(component.decayType)

\* The four conditions under which a tick at t changes the component.
DecayDue(component, t) ==
    /\ component.lastChecked # Null
    /\ component.decayType \in DecayTypes
    /\ t - component.lastChecked >= PeriodMinutes(component.decayType)
    /\ DecayAmountAt(component, t) > 0
    /\ component.currentValue > 0

\* The SliceComponentUpdate rows of component key this step created.
NewComponentRowsOf(key) ==
    { i \in (Len(componentUpdates) + 1)..Len(componentUpdates') :
        componentUpdates'[i].componentKey = key }

(* C28: a composite-decay tick changes a component only if its lastChecked *)
(* is set, a whole period of its decayType has elapsed since, decayAmount  *)
(* = floor(periodsElapsed * decayRate) > 0 and currentValue > 0; it then   *)
(* sets currentValue to max(0, currentValue - decayAmount) and creates     *)
(* exactly one SliceComponentUpdate row; lastChecked is never changed.     *)
C28_DecayTick ==
    [][ DecayTick =>
          /\ DOMAIN components' = DOMAIN components
          /\ \A key \in DOMAIN components :
                \A c \in { components[key] } :
                   /\ components'[key].lastChecked = c.lastChecked
                   /\ IF DecayDue(c, now)
                        THEN /\ components'[key] =
                                  [c EXCEPT !.currentValue =
                                      Max(0, c.currentValue
                                               - DecayAmountAt(c, now))]
                             /\ components'[key].currentValue # c.currentValue
                             /\ Cardinality(NewComponentRowsOf(key)) = 1
                             /\ \A i \in NewComponentRowsOf(key) :
                                   /\ componentUpdates'[i].valueBefore
                                         = c.currentValue
                                   /\ componentUpdates'[i].valueAfter
                                         = components'[key].currentValue
                      ELSE /\ components'[key] = c
                           /\ NewComponentRowsOf(key) = {} ]_vars

\* A day after teeth was checked off to 100, a tick took a day's decay of
\* 20 from it, wrote the row 100 -> 80 and left lastChecked at the check-off.
C28_Witness ==
    /\ lastCall.op = "applyCompositeDecay"
    /\ now = Noon + MinutesPerDay
    /\ components["teeth"].lastChecked = Noon
    /\ components["teeth"].currentValue = 80
    /\ \E i \in 1..Len(componentUpdates) :
          /\ componentUpdates[i].componentKey = "teeth"
          /\ componentUpdates[i].notes = "decay"
          /\ componentUpdates[i].valueBefore = 100
          /\ componentUpdates[i].valueAfter = 80
          /\ componentUpdates[i].date = now

\* The value component key was given by its latest check-off, in the rows
\* rows: a row of the scheduler carries the notes "decay".
RECURSIVE ValueAtLastCheckOff(_, _, _)
ValueAtLastCheckOff(rows, key, k) ==
    IF k = 0 THEN 0
    ELSE IF rows[k].componentKey = key /\ rows[k].notes # "decay"
           THEN rows[k].valueAfter
         ELSE ValueAtLastCheckOff(rows, key, k - 1)

\* The decay owed by a checked component at t: floor(periodsElapsed *
\* decayRate) from the first whole period on.
DecayOwed(component, t) ==
    IF /\ component.decayType \in DecayTypes
       /\ t - component.lastChecked >= PeriodMinutes(component.decayType)
      THEN DecayAmountAt(component, t)
    ELSE 0

(* C29: decay is not charged twice over repeated ticks: after a tick, the  *)
(* stored currentValue of a checked component is max(0, the value of its   *)
(* latest check-off - floor(periodsElapsed * decayRate)), the periods      *)
(* counted from lastChecked to the tick; and a tick that follows a tick    *)
(* with the clock unchanged leaves every component as it is.               *)
C29_DecayNotDoubleCharged ==
    [][ DecayTick =>
          /\ \A key \in DOMAIN components' :
                \A c \in { components'[key] } :
                   c.lastChecked # Null =>
                      c.currentValue =
                          Max(0, ValueAtLastCheckOff(componentUpdates', key,
                                                     Len(componentUpdates'))
                                   - DecayOwed(c, now'))
          /\ ( lastCall.op = "applyCompositeDecay" /\ lastCall.at = now )
                => components' = components ]_vars

\* The deltas of the automatic rows of slice id among rows, added up from
\* the k-th row down.
RECURSIVE AutomaticDelta(_, _, _)
AutomaticDelta(rows, id, k) ==
    IF k = 0 THEN 0
    ELSE AutomaticDelta(rows, id, k - 1)
           + IF rows[k].sliceId = id /\ rows[k].automatic THEN rows[k].delta
             ELSE 0

\* Two invocations of one evaluator overlapped and both have returned.
OverlapDone ==
    /\ \A p \in Invocations : calls[p].pc = "done"
    /\ \E p \in Invocations : calls[p].overlaps

(* C30: two overlapping invocations of the scheduled or of the continuous  *)
(* evaluator, under every interleaving of their count reads and penalty    *)
(* writes, together record for every slice the automatic delta that one    *)
(* invocation alone records from the store the first one found.            *)
C30_OverlapAppliesOnce ==
    OverlapDone =>
        \A p \in Invocations :
           \A single \in { sweepOf(calls[p].evaluator, calls[p].base,
                                   calls[p].t) } :
              \A id \in SliceIds :
                 AutomaticDelta(updates, id, Len(updates))
                    = AutomaticDelta(single.updates, id, Len(single.updates))

\* The smallest |value - target| over the indices 0..maxIndex, as an
\* exhaustive scan finds it.
MinDistance(config, targetValue, maxIndex) ==
    LET values == { calculateValue(config, i) : i \in 0..maxIndex }
    IN  CHOOSE d \in { Abs(v - targetValue) : v \in values } :
            \A v \in values : d <= Abs(v - targetValue)

(* C31: for a configuration the engine treats as monotonic (linear, sqrt,  *)
(* logarithmic with multiplier >= 0, exponential with base >= 1, every     *)
(* sigmoid) and a target > 0, findClosestIndex returns an index of         *)
(* 0..maxIndex whose value is as close to the target as the value of any   *)
(* index of 0..maxIndex.                                                   *)
C31_BinarySearchFindsClosest ==
    ( /\ lastCall.op = "findClosestIndex"
      /\ lastCall.arg.targetValue > 0
      /\ isMonotonicIncreasing(ConfigOf(lastCall)) )
    => /\ lastCall.outcome \in 0..lastCall.arg.maxIndex
       /\ Abs(calculateValue(ConfigOf(lastCall), lastCall.outcome)
                - lastCall.arg.targetValue)
            = MinDistance(ConfigOf(lastCall), lastCall.arg.targetValue,
                          lastCall.arg.maxIndex)

\* The store this step leaves.
StoreAfter ==
    [ slices |-> slices', updates |-> updates',
      components |-> components', componentUpdates |-> componentUpdates' ]

(* C32: the parent value the composite-decay scheduler persists is the one *)
(* calculateCompositeValue returns for the same stored components at the   *)
(* same instant: after a tick that changed a component of a composite      *)
(* slice, the currentValue of the slice equals calculateCompositeValue of  *)
(* the store the tick left.                                                *)
C32_DecayParentAsCalculated ==
    [][ DecayTick =>
          \A k \in 1..Len(CompositeSlices) :
             \A id \in { CompositeSlices[k] } :
                ( \E key \in DOMAIN components :
                     /\ components[key].sliceId = id
                     /\ components'[key] # components[key] )
                => slices'[id].currentValue
                     = calculateCompositeValue(StoreAfter, id, now') ]_vars

\* This step is a run of recalculateAllCompositeSlices under faults.
BatchRun == lastCall'.op = "recalculateAllCompositeSlices" /\ now' = now

(* C34: recalculateAllCompositeSlices tolerates the failure of a slice:    *)
(* when calculating or persisting the composite value of one composite     *)
(* slice fails, the value of every other composite slice is calculated     *)
(* and persisted in the same run.                                          *)
C34_BatchSurvivesFaults ==
    [][ BatchRun =>
          \A k \in 1..Len(BatchSlices) :
             \A id \in { BatchSlices[k] } :
                IF \E site \in FaultSites : << id, site >> \in lastCall'.arg
                  THEN slices'[id] = slices[id]
                ELSE slices'[id].currentValue
                       = calculateCompositeValue(Store, id, now) ]_vars

\* The store failed on hyg, the first slice of the loop, whose value stayed
\* 0 with teeth at 100, and the value of fit was stored as 50.
C34_Witness ==
    /\ lastCall.op = "recalculateAllCompositeSlices"
    /\ lastCall.arg = { << "hyg", "calculate" >> }
    /\ components["teeth"].currentValue = 100
    /\ components["nails"].currentValue = 50
    /\ slices["hyg"].currentValue = 0
    /\ slices["fit"].currentValue = 50

(* C33: runAllChecks always completes: whatever faults the store raises    *)
(* during the three sweeps, every evaluator is started, every evaluator    *)
(* finishes, and runAllChecks resolves (no Error reaches its caller).      *)
C33_RunAllChecksCompletes ==
    /\ [](calls["runAllChecks"].pc = "awaiting"
            => \A p \in Evaluators : calls[p].pc \notin {"idle", "rejected"})
    /\ (calls["runAllChecks"].pc = "awaiting")
          ~> (/\ calls["runAllChecks"].pc = "done"
              /\ \A p \in Evaluators : calls[p].pc = "done")

\* runAllChecks resolved after the store had raised in each of the three
\* sweeps, once a penalty row and a decay row had been created.
C33_Witness ==
    /\ calls["runAllChecks"].pc = "done"
    /\ \A p \in Evaluators : calls[p] = [pc |-> "done", caught |-> TRUE]
    /\ \E i \in 1..Len(updates) : updates[i].automatic
    /\ \E i \in 1..Len(componentUpdates) :
          componentUpdates[i].notes = "decay"

(* C35: the SliceUpdate rows of a non-composite slice, in creation order,   *)
(* form a chain: each row starts at the index and value the row before it  *)
(* ended at, and the latest row ends at the slice's current index and      *)
(* value.                                                                  *)
C35_SliceAuditChain ==
    \A id \in SliceIds :
        ~Catalog[id].isComposite =>
            LET rows == rowsOf(updates, id)
            IN  /\ \A k \in 2..Len(rows) :
                      /\ rows[k].indexBefore = rows[k - 1].indexAfter
                      /\ rows[k].valueBefore = rows[k - 1].valueAfter
                /\ Len(rows) > 0 =>
                      /\ rows[Len(rows)].indexAfter = slices[id].currentIndex
                      /\ rows[Len(rows)].valueAfter = slices[id].currentValue

(* C36: an automatic penalty never raises a slice's value: every row an    *)
(* automatic updateBySteps with negative steps has written ends at a value *)
(* no greater than the one it started from.                                *)
C36_PenaltyNeverRaises ==
    \A i \in 1..Len(updates) :
        (updates[i].automatic /\ updates[i].delta < 0)
            => updates[i].valueAfter <= updates[i].valueBefore

(* C37: the baseline of the continuous evaluator is the slice's latest row *)
(* of any kind: an automatic row of a continuous slice comes no sooner     *)
(* than maxInterval + penaltyInterval minutes after every row written      *)
(* before it, and sliceUpdate.count, asked for the automatic rows later    *)
(* than the latest row, finds none.                                        *)
C37_ContinuousBaseline ==
    \A k \in 1..Len(ContinuousSlices) :
        LET id == ContinuousSlices[k]
            rows == rowsOf(updates, id)
        IN  /\ \A i \in 1..Len(rows) : \A j \in 1..(i - 1) :
                  rows[i].automatic =>
                      rows[i].date >= rows[j].date + Catalog[id].maxInterval
                                        + Catalog[id].penaltyInterval
            /\ Len(rows) > 0 =>
                  automaticPenaltiesSinceUpdate(updates,
                      findManySnapshot(Store, id)) = 0

\* A sweep ran after hyd's latest row, an automatic one, and wrote nothing.
C37_Witness ==
    /\ latestUpdate(updates, "hyd") # 0
    /\ updates[latestUpdate(updates, "hyd")].automatic
    /\ lastCall.op = "checkContinuousSlices"
    /\ lastCall.at > updates[latestUpdate(updates, "hyd")].date

\* The call just made stood for k calls of the amount.
AggregatedCall == lastCall.op = "updateBySteps"

componentRowsOf(rows, key) == SelectSeq(rows, LAMBDA row : row.componentKey = key)

(* C39: the SliceComponentUpdate rows of a component form a chain: each    *)
(* row's valueBefore is the valueAfter of the component's row before it,   *)
(* and the latest row's valueAfter is the component's currentValue.        *)
C39_ComponentAuditChain ==
    \A key \in DOMAIN components :
        LET rows == componentRowsOf(componentUpdates, key)
        IN  /\ \A k \in 2..Len(rows) :
                  rows[k].valueBefore = rows[k - 1].valueAfter
            /\ Len(rows) > 0 =>
                  rows[Len(rows)].valueAfter = components[key].currentValue

\* The temporal type whose slices the sweep op goes over.
SweptType(op) ==
    IF op = "checkScheduledSlices" THEN "scheduled" ELSE "continuous"

\* This step is a sweep of a penalty evaluator.
PenaltySweep ==
    /\ lastCall'.op \in {"checkScheduledSlices", "checkContinuousSlices"}
    /\ now' = now

====
